---- MODULE Spec2Model ----
(***************************************************************************)
(* A model of musicscan.py: the fingerprint cache, the repair pipeline of  *)
(* get_audio_fingerprint, duplicate grouping with canonical selection, and *)
(* the interactive quarantine sessions.                                    *)
(*                                                                         *)
(* The program is modelled by sixteen specifications over one set of       *)
(* variables, each leaving the variables it does not use at their initial  *)
(* values:                                                                 *)
(*   SpecRepair      get_audio_fingerprint on one file, step by step       *)
(*   SpecRun         main from the cache load to the duplicate sets        *)
(*   SpecLoad        the same, over a cache file of any content            *)
(*   SpecDup         duplicate identification on one fingerprint group     *)
(*   SpecMove        move_file_to_quarantine, call after call              *)
(*   SpecQ           main from the duplicate sets through both             *)
(*                   interactive sessions to the cache save                *)
(*   SpecAgain       main from the walk to the saved cache, run after run  *)
(*   SpecSave        save_fingerprint_cache, step by step                  *)
(*   SpecTwin        a dry run, then a real run on the same files, cache   *)
(*                   and answers                                           *)
(*   SpecBatch       the fingerprinting phase while files vanish, with the *)
(*                   executor's fairness                                   *)
(*   SpecScenario    main on three files, two of them the same recording   *)
(*   SpecPipeline    one worker's get_audio_fingerprint and the handling   *)
(*                   of its result in main                                 *)
(*   SpecRepairFair  SpecRepair with the fairness of a running call        *)
(*   SpecMain        main from the cache load to the final save, among     *)
(*                   files that are gone and come back                     *)
(*   SpecGone        main from the fingerprint groups through the          *)
(*                   duplicate session, among files that have vanished     *)
(*   SpecSkip        main under every choice of the skip and force         *)
(*                   options, with and without fpcalc                      *)
(***************************************************************************)
EXTENDS Integers, Sequences, FiniteSets, TLC

VARIABLES
    \* ---- get_audio_fingerprint (one call, one file) ----
    pc,                                 \* position inside get_audio_fingerprint
    disk,                               \* content of the four paths the call touches
    is_mp3,                             \* filepath.lower().endswith(".mp3")
    process_ffmpeg,                     \* the completed FFmpeg process: whether it ran, its returncode
    attempt_repair_mp3val_if_needed,    \* parameter
    attempt_repair_ffmpeg_if_needed,    \* parameter
    MP3VAL_PATH,                        \* global: TRUE when a path is set
    FFMPEG_PATH,                        \* global: TRUE when a path is set
    original_error_for_ffmpeg_check,    \* TRUE when the initial error text is of the repairable class
    original_file_backed_up_mp3val,
    mp3val_repair_led_to_fp,
    original_file_backed_up_ffmpeg,
    ffmpeg_repair_led_to_fp,
    result,                             \* "pending", "fp" (duration, fp_bytes) or "none" (None, None)
    log,                                \* the error/warning events logged by the call
    rewritten_by,                       \* history: the tools that rewrote filepath in this call
    \* ---- main: cache validation, fingerprinting, duplicate identification ----
    run_pc,                             \* position inside main
    args,                               \* the parsed command line
    can_fingerprint_system_ok,          \* whether check_fpcalc_executable found fpcalc
    fs,                                 \* the audio files on disk: exists, mtime, size
    audio_files,                        \* the list the directory walk produced
    loop_i,                             \* index of the loop main is in
    fp_cache_from_disk,
    current_run_valid_cache_entries,
    fingerprint_map,                    \* (fp_bytes, rounded duration) -> list of paths
    files_needing_fingerprinting,
    futures,                            \* path -> state and result of its worker task
    duplicates,                         \* canonical path -> list of duplicate paths
    obtained,                           \* history: path -> the (fp_bytes, duration) read or computed for it
    cache_file,                         \* the cache file on disk: path -> entry
    fs_at_start,                        \* history: fs when the run began
    runs,                               \* history: the invocations of main so far
    \* ---- quarantine: prompt_to_remove_duplicates and the low bitrate flow ----
    quarantine_files,                   \* destination path -> the path its content came from
    sorted_duplicate_sets,
    loop_j,                             \* index of the inner loop over dupe_list
    remove_all_mode,
    quit_mode,
    files_quarantined_count,
    response_check_low_br_for_save_logic,
    low_bitrate_files_initially_detected,
    low_bitrate_files_to_prompt,
    all_mode_lb,
    quit_mode_lb,
    quarantined_lb_count,
    inputs_read,                        \* history: input() calls answered in the session
    answers,                            \* history: path -> the answer given for it in the session ("auto": none read)
    move_calls,                         \* history: the calls of move_file_to_quarantine in the session
    at_session_start,                   \* history: fs and working cache when the session began
    twin,                               \* the answers on standard input when a run is repeated on them
    \* ---- save_fingerprint_cache ----
    save_pc,                            \* position in save_fingerprint_cache
    temp_cache_file,                    \* the file cache_file_path + ".tmp": how far it is written, and the cache in it
    save_log                            \* the errors save_fingerprint_cache has logged

varsRepair == <<pc, disk, is_mp3, process_ffmpeg, attempt_repair_mp3val_if_needed,
                attempt_repair_ffmpeg_if_needed, MP3VAL_PATH, FFMPEG_PATH,
                original_error_for_ffmpeg_check, original_file_backed_up_mp3val,
                mp3val_repair_led_to_fp, original_file_backed_up_ffmpeg,
                ffmpeg_repair_led_to_fp, result, log, rewritten_by>>

varsRun == <<run_pc, args, can_fingerprint_system_ok, fs, audio_files, loop_i,
             fp_cache_from_disk,
             current_run_valid_cache_entries, fingerprint_map,
             files_needing_fingerprinting, futures, duplicates, obtained,
             cache_file, fs_at_start, runs>>

varsQ == <<quarantine_files, sorted_duplicate_sets, loop_j, remove_all_mode, quit_mode,
           files_quarantined_count, response_check_low_br_for_save_logic,
           low_bitrate_files_initially_detected, low_bitrate_files_to_prompt,
           all_mode_lb, quit_mode_lb, quarantined_lb_count, inputs_read, answers, move_calls,
           at_session_start, twin>>

varsSave == <<save_pc, temp_cache_file, save_log>>

vars == <<varsRepair, varsRun, varsQ, varsSave>>

(***************************************************************************)
(*                     Path strings and their order                        *)
(***************************************************************************)

\* A Python str is modelled as a sequence of one-character strings.
\* ord() of every character the model's strings use.
CodePoint ==
    " " :> 32 @@ "(" :> 40 @@ ")" :> 41 @@ "." :> 46 @@ "/" :> 47 @@ "0"
    :> 48 @@ "1" :> 49 @@ "2" :> 50 @@ "3" :> 51 @@ "4" :> 52 @@ "5" :> 53
    @@ "6" :> 54 @@ "7" :> 55 @@ "8" :> 56 @@ "9" :> 57 @@ "A" :> 65 @@
    "B" :> 66 @@ "C" :> 67 @@ "D" :> 68 @@ "E" :> 69 @@ "F" :> 70 @@ "M"
    :> 77 @@ "U" :> 85 @@ "a" :> 97 @@ "b" :> 98 @@ "c" :> 99 @@ "d" :>
    100 @@ "e" :> 101 @@ "f" :> 102 @@ "i" :> 105 @@ "l" :> 108 @@ "m" :>
    109 @@ "n" :> 110 @@ "o" :> 111 @@ "p" :> 112 @@ "r" :> 114 @@ "s" :>
    115 @@ "t" :> 116 @@ "u" :> 117

\* str.lower() on one character.
UpperToLower ==
    "A" :> "a" @@ "B" :> "b" @@ "C" :> "c" @@ "D" :> "d" @@ "E" :> "e" @@
    "F" :> "f" @@ "M" :> "m" @@ "U" :> "u"

LowerChar(c) == IF c \in DOMAIN UpperToLower THEN UpperToLower[c] ELSE c

\* str.lower()
Lower(s) == [i \in DOMAIN s |-> LowerChar(s[i])]

\* Python's < on str: by code point, a proper prefix first.
RECURSIVE StrLess(_, _)
StrLess(a, b) ==
    IF b = <<>> THEN FALSE
    ELSE IF a = <<>> THEN TRUE
    ELSE IF CodePoint[Head(a)] # CodePoint[Head(b)]
         THEN CodePoint[Head(a)] < CodePoint[Head(b)]
         ELSE StrLess(Tail(a), Tail(b))

\* str.endswith
EndsWith(s, suffix) ==
    /\ Len(s) >= Len(suffix)
    /\ SubSeq(s, Len(s) - Len(suffix) + 1, Len(s)) = suffix

\* str.split(os.sep): the pieces between separators, empty ones included.
RECURSIVE SplitFrom(_, _, _)
SplitFrom(s, i, piece) ==
    IF i > Len(s) THEN <<piece>>
    ELSE IF s[i] = "/" THEN <<piece>> \o SplitFrom(s, i + 1, <<>>)
    ELSE SplitFrom(s, i + 1, Append(piece, s[i]))

Split(s) == SplitFrom(s, 1, <<>>)

\* os.path.normpath on the pieces of an absolute path: empty and "." pieces
\* dropped, ".." removing the piece before it.
RECURSIVE NormPieces(_, _)
NormPieces(pieces, acc) ==
    IF pieces = <<>> THEN acc
    ELSE LET x == Head(pieces) IN
         IF x = <<>> \/ x = <<".">> THEN NormPieces(Tail(pieces), acc)
         ELSE IF x = <<".", ".">>
              THEN NormPieces(Tail(pieces),
                              IF acc = <<>> THEN acc ELSE SubSeq(acc, 1, Len(acc) - 1))
              ELSE NormPieces(Tail(pieces), Append(acc, x))

\* Line 17.
UNSORTED_PATH_MARKER_SEGMENTS == <<<<"M", "u", "s", "i", "c">>, <<"U", "n", "s", "o", "r", "t", "e", "d">>>>

\* Lines 175-202.
is_in_target_path_pattern(filepath, pattern_segments) ==
    IF filepath = <<>> \/ pattern_segments = <<>> THEN FALSE
    ELSE LET normalized_filepath_parts ==
                 LET parts == NormPieces(Split(filepath), <<>>) IN
                 [i \in DOMAIN parts |-> Lower(parts[i])]
             normalized_pattern_segments ==
                 [i \in DOMAIN pattern_segments |-> Lower(pattern_segments[i])]
             pattern_len == Len(normalized_pattern_segments)
         IN \E i \in 1..(Len(normalized_filepath_parts) - pattern_len + 1) :
               SubSeq(normalized_filepath_parts, i, i + pattern_len - 1)
                   = normalized_pattern_segments

\* The audio files of the scanned tree.
PathTable == <<
    <<"/", "M", "u", "s", "i", "c", "/", "A", ".", "m", "p", "3">>,
    <<"/", "M", "u", "s", "i", "c", "/", "U", "n", "s", "o", "r", "t", "e", "d", "/", "B", ".", "m", "p", "3">>,
    <<"/", "M", "u", "s", "i", "c", "/", "C", ".", "f", "l", "a", "c">>,
    <<"/", "m", "u", "s", "i", "c", "/", "u", "n", "s", "o", "r", "t", "e", "d", "/", "A", ".", "m", "p", "3">>,
    <<"/", "U", "n", "s", "o", "r", "t", "e", "d", "/", "M", "u", "s", "i", "c", "/", "A", ".", "m", "p", "3">> >>

(***************************************************************************)
(*                      get_audio_fingerprint                              *)
(***************************************************************************)

\* The paths one call reads and writes.
RepairPaths == {"filepath", "backup_filepath_mp3val", "backup_filepath_ffmpeg",
                "temp_output_filepath"}

\* Content of the file before the call.
OriginalBytes == "orig"

\* What a path can hold: nothing, the original bytes, the bytes mp3val or
\* FFmpeg wrote, a truncated copy, or a zero-length file.
Contents == {"absent", OriginalBytes, "mp3val_out", "ffmpeg_out", "partial", "empty"}

\* subprocess.run has not been called for FFmpeg.
NotRun == [ran |-> FALSE, returncode |-> 0]

\* The error-text test shared by should_try_mp3val and should_try_ffmpeg.
\* Mutant of should_try_mp3val: the error text is not looked at.
should_try_mp3val_AnyError ==
    /\ attempt_repair_mp3val_if_needed
    /\ MP3VAL_PATH
    /\ is_mp3

should_try_mp3val ==
    /\ attempt_repair_mp3val_if_needed
    /\ MP3VAL_PATH
    /\ is_mp3
    /\ original_error_for_ffmpeg_check

\* Mutant of should_try_ffmpeg: the error text is not looked at.
should_try_ffmpeg_AnyError ==
    /\ attempt_repair_ffmpeg_if_needed
    /\ FFMPEG_PATH

should_try_ffmpeg ==
    /\ attempt_repair_ffmpeg_if_needed
    /\ FFMPEG_PATH
    /\ original_error_for_ffmpeg_check

\* The variables of main while only get_audio_fingerprint is looked at.
RunIdle ==
    /\ run_pc = "idle"
    /\ can_fingerprint_system_ok = TRUE
    /\ args = [force_re_fingerprint |-> FALSE, skip_duplicates |-> FALSE]
    /\ fs = <<>>
    /\ audio_files = <<>>
    /\ loop_i = 1
    /\ fp_cache_from_disk = <<>>
    /\ current_run_valid_cache_entries = <<>>
    /\ fingerprint_map = <<>>
    /\ files_needing_fingerprinting = <<>>
    /\ futures = <<>>
    /\ duplicates = <<>>
    /\ obtained = <<>>
    /\ cache_file = <<>>
    /\ fs_at_start = <<>>
    /\ runs = 1

\* save_fingerprint_cache is not running and has left no temporary file.
SaveIdle ==
    /\ save_pc = "idle"
    /\ temp_cache_file = [state |-> "absent", data |-> <<>>]
    /\ save_log = {}

\* The quarantine variables before any session: no file quarantined, no
\* prompt answered.
QIdle ==
    /\ quarantine_files = <<>>
    /\ sorted_duplicate_sets = <<>>
    /\ loop_j = 1
    /\ remove_all_mode = FALSE
    /\ quit_mode = FALSE
    /\ files_quarantined_count = 0
    /\ response_check_low_br_for_save_logic = "n"
    /\ low_bitrate_files_initially_detected = <<>>
    /\ low_bitrate_files_to_prompt = <<>>
    /\ all_mode_lb = FALSE
    /\ quit_mode_lb = FALSE
    /\ quarantined_lb_count = 0
    /\ inputs_read = 0
    /\ answers = <<>>
    /\ move_calls = <<>>
    /\ at_session_start = <<>>
    /\ twin = [mode |-> "off"]

InitRepair ==
    /\ pc = "primary"
    /\ disk = [p \in RepairPaths |-> IF p = "filepath" THEN OriginalBytes ELSE "absent"]
    /\ is_mp3 \in BOOLEAN
    /\ process_ffmpeg = NotRun
    /\ MP3VAL_PATH \in BOOLEAN
    /\ FFMPEG_PATH \in BOOLEAN
    \* main passes (args.auto_repair_mp3 and can_repair_mp3_system_ok)
    /\ \E auto_repair_mp3 \in BOOLEAN :
          attempt_repair_mp3val_if_needed = (auto_repair_mp3 /\ MP3VAL_PATH)
    /\ \E auto_repair_ffmpeg \in BOOLEAN :
          attempt_repair_ffmpeg_if_needed = (auto_repair_ffmpeg /\ FFMPEG_PATH)
    /\ original_error_for_ffmpeg_check = FALSE
    /\ original_file_backed_up_mp3val = FALSE
    /\ mp3val_repair_led_to_fp = FALSE
    /\ original_file_backed_up_ffmpeg = FALSE
    /\ ffmpeg_repair_led_to_fp = FALSE
    /\ result = "pending"
    /\ log = {}
    /\ rewritten_by = {}
    /\ RunIdle
    /\ SaveIdle
    /\ QIdle

\* Lines 211-218 and 387-390: the initial acoustid.fingerprint_file call.
PrimaryAttempt ==
    /\ pc = "primary"
    /\ \E outcome \in {"ok", "recoverable", "other_fp_error", "exception"} :
          /\ pc' = CASE outcome = "ok" -> "done"
                     [] outcome = "exception" -> "done"
                     [] OTHER -> "stage1_gate"
          /\ result' = CASE outcome = "ok" -> "fp"
                         [] outcome = "exception" -> "none"
                         [] OTHER -> "pending"
          /\ original_error_for_ffmpeg_check' = (outcome = "recoverable")
          /\ log' = CASE outcome = "ok" -> log
                      [] outcome = "exception" -> log \cup {<<"primary", "unexpected">>}
                      [] OTHER -> log \cup {<<"primary", "failed">>}
    /\ UNCHANGED <<varsRun, varsQ, varsSave>>
    /\ UNCHANGED <<rewritten_by, disk, is_mp3, process_ffmpeg,
                   attempt_repair_mp3val_if_needed,
                   attempt_repair_ffmpeg_if_needed, MP3VAL_PATH, FFMPEG_PATH,
                   original_file_backed_up_mp3val, mp3val_repair_led_to_fp,
                   original_file_backed_up_ffmpeg, ffmpeg_repair_led_to_fp>>

\* Lines 221-230: the decision to enter the mp3val stage.
Stage1Gate ==
    /\ pc = "stage1_gate"
    /\ pc' = IF should_try_mp3val THEN "mp3val_backup" ELSE "stage2_gate"
    /\ UNCHANGED <<varsRun, varsQ, varsSave>>
    /\ UNCHANGED <<rewritten_by, disk, is_mp3, process_ffmpeg,
                   attempt_repair_mp3val_if_needed,
                   attempt_repair_ffmpeg_if_needed, MP3VAL_PATH, FFMPEG_PATH,
                   original_error_for_ffmpeg_check, original_file_backed_up_mp3val,
                   mp3val_repair_led_to_fp, original_file_backed_up_ffmpeg,
                   ffmpeg_repair_led_to_fp, result, log>>

\* shutil.copy2(filepath, backup): it completes, or raises having written
\* nothing, or raises leaving a truncated destination behind.
CopyOutcomes == {"copied", "failed", "failed_partial"}

\* Mutant of BackupAfterCopy: the copy writes nothing and reports success.
BackupAfterCopy_Nothing(outcome, old) == old

BackupAfterCopy(outcome, old) ==
    CASE outcome = "copied" -> disk["filepath"]
      [] outcome = "failed_partial" -> "partial"
      [] OTHER -> old

\* Lines 238-241 (and 276-277 when copy2 raises).
Mp3valBackup ==
    /\ pc = "mp3val_backup"
    /\ \E outcome \in CopyOutcomes :
          /\ disk' = [disk EXCEPT !["backup_filepath_mp3val"] =
                                      BackupAfterCopy(outcome, @)]
          /\ original_file_backed_up_mp3val' = (outcome = "copied")
          /\ pc' = IF outcome = "copied" THEN "mp3val_run" ELSE "mp3val_finally"
          /\ log' = IF outcome = "copied" THEN log
                     ELSE log \cup {<<"mp3val", "backup_failed">>}
    /\ UNCHANGED <<varsRun, varsQ, varsSave>>
    /\ UNCHANGED <<rewritten_by, is_mp3, process_ffmpeg,
                   attempt_repair_mp3val_if_needed,
                   attempt_repair_ffmpeg_if_needed, MP3VAL_PATH, FFMPEG_PATH,
                   original_error_for_ffmpeg_check, mp3val_repair_led_to_fp,
                   original_file_backed_up_ffmpeg, ffmpeg_repair_led_to_fp, result>>

\* Lines 243-251 and 269-277: mp3val runs in place on filepath.  The command
\* may be missing (FileNotFoundError); otherwise it exits with status 0 or
\* not, having rewritten the file or left it alone.
Mp3valRun ==
    /\ pc = "mp3val_run"
    /\ \/ /\ pc' = "mp3val_finally"             \* FileNotFoundError
          /\ log' = log \cup {<<"mp3val", "not_found">>}
          /\ disk' = disk
          /\ rewritten_by' = rewritten_by
       \/ \E returncode \in {0, 1}, rewrote \in BOOLEAN :
             /\ disk' = IF rewrote THEN [disk EXCEPT !["filepath"] = "mp3val_out"]
                                   ELSE disk
             /\ rewritten_by' = IF rewrote THEN rewritten_by \cup {"mp3val"}
                                           ELSE rewritten_by
             /\ pc' = IF returncode = 0 THEN "mp3val_refp" ELSE "mp3val_finally"
             /\ log' = log
    /\ UNCHANGED <<varsRun, varsQ, varsSave>>
    /\ UNCHANGED <<is_mp3, process_ffmpeg,
                   attempt_repair_mp3val_if_needed,
                   attempt_repair_ffmpeg_if_needed, MP3VAL_PATH, FFMPEG_PATH,
                   original_error_for_ffmpeg_check, original_file_backed_up_mp3val,
                   mp3val_repair_led_to_fp, original_file_backed_up_ffmpeg,
                   ffmpeg_repair_led_to_fp, result>>

\* Lines 259-268: the fingerprint retry after mp3val.
Mp3valRefingerprint ==
    /\ pc = "mp3val_refp"
    /\ \E ok \in BOOLEAN :
          /\ mp3val_repair_led_to_fp' = ok
          /\ result' = IF ok THEN "fp" ELSE result
    /\ pc' = "mp3val_finally"
    /\ UNCHANGED <<varsRun, varsQ, varsSave>>
    /\ UNCHANGED <<rewritten_by, disk, is_mp3, process_ffmpeg,
                   attempt_repair_mp3val_if_needed,
                   attempt_repair_ffmpeg_if_needed, MP3VAL_PATH, FFMPEG_PATH,
                   original_error_for_ffmpeg_check, original_file_backed_up_mp3val,
                   original_file_backed_up_ffmpeg, ffmpeg_repair_led_to_fp, log>>

\* Mutant of RemoveBackup: the success branch forgets os.remove.
RemoveBackup_Keep(d, backup, removed) == d

\* os.remove(backup) in a finally block: removed, or OSError (logged, kept).
RemoveBackup(d, backup, removed) ==
    IF removed THEN [d EXCEPT ![backup] = "absent"] ELSE d

\* shutil.move(backup, filepath) in a finally block, guarded by
\* os.path.exists(backup): the original is back and the backup gone; or the
\* move raises, leaving the file as it was or half written, the backup kept.
RestoreOutcomes == {"restored", "failed", "failed_partial"}

\* Mutant of RestoreFromBackup: the failure branch deletes the backup instead
\* of moving it back over filepath.
RestoreFromBackup_Drop(d, backup, outcome) == [d EXCEPT ![backup] = "absent"]

\* Mutant of RestoreFromBackup: the backup is copied back, not moved.
RestoreFromBackup_Copy(d, backup, outcome) ==
    IF d[backup] = "absent" THEN d ELSE [d EXCEPT !["filepath"] = d[backup]]

RestoreFromBackup(d, backup, outcome) ==
    IF d[backup] = "absent" THEN d
    ELSE CASE outcome = "restored" ->
                  [d EXCEPT !["filepath"] = d[backup], ![backup] = "absent"]
           [] outcome = "failed_partial" -> [d EXCEPT !["filepath"] = "partial"]
           [] OTHER -> d

\* The events a finally block logs: the warning of lines 282 and 372, the
\* CRITICAL error of lines 290 and 381.
FinallyLog(stage, backup, led_to_fp, removed, outcome) ==
    IF led_to_fp
    THEN IF removed THEN {} ELSE {<<stage, "remove_backup_failed">>}
    ELSE IF disk[backup] # "absent" /\ outcome # "restored"
         THEN {<<stage, "restore_failed">>} ELSE {}

\* Mutant of AfterMp3valStage: the FFmpeg gate follows in every case.
AfterMp3valStage_FallThrough(led_to_fp) == "stage2_gate"

\* Lines 266 and 293-294: the call returns when the analysis after mp3val
\* succeeded; else the FFmpeg gate follows.
\* Mutant of AfterMp3valStage: after a failed stage mp3val is tried again.
AfterMp3valStage_Retry(led_to_fp) == IF led_to_fp THEN "done" ELSE "stage1_gate"

AfterMp3valStage(led_to_fp) == IF led_to_fp THEN "done" ELSE "stage2_gate"

\* Lines 278-294: the finally block of the mp3val stage, and what follows it.
Mp3valFinally ==
    /\ pc = "mp3val_finally"
    /\ \E removed \in BOOLEAN, outcome \in RestoreOutcomes :
          IF original_file_backed_up_mp3val
          THEN /\ disk' = IF mp3val_repair_led_to_fp
                          THEN RemoveBackup(disk, "backup_filepath_mp3val", removed)
                          ELSE RestoreFromBackup(disk, "backup_filepath_mp3val", outcome)
               /\ log' = log \cup FinallyLog("mp3val", "backup_filepath_mp3val",
                                             mp3val_repair_led_to_fp, removed, outcome)
          ELSE /\ disk' = disk
               /\ log' = log
    /\ pc' = AfterMp3valStage(mp3val_repair_led_to_fp)
    /\ UNCHANGED <<varsRun, varsQ, varsSave>>
    /\ UNCHANGED <<rewritten_by, is_mp3, process_ffmpeg,
                   attempt_repair_mp3val_if_needed,
                   attempt_repair_ffmpeg_if_needed, MP3VAL_PATH, FFMPEG_PATH,
                   original_error_for_ffmpeg_check, original_file_backed_up_mp3val,
                   mp3val_repair_led_to_fp, original_file_backed_up_ffmpeg,
                   ffmpeg_repair_led_to_fp, result>>

\* Lines 303-311 and 384-385: the decision to enter the FFmpeg stage.
Stage2Gate ==
    /\ pc = "stage2_gate"
    /\ pc' = IF should_try_ffmpeg THEN "ffmpeg_backup" ELSE "done"
    /\ result' = IF should_try_ffmpeg THEN result ELSE "none"
    /\ UNCHANGED <<varsRun, varsQ, varsSave>>
    /\ UNCHANGED <<rewritten_by, disk, is_mp3, process_ffmpeg,
                   attempt_repair_mp3val_if_needed,
                   attempt_repair_ffmpeg_if_needed, MP3VAL_PATH, FFMPEG_PATH,
                   original_error_for_ffmpeg_check, original_file_backed_up_mp3val,
                   mp3val_repair_led_to_fp, original_file_backed_up_ffmpeg,
                   ffmpeg_repair_led_to_fp, log>>

\* Lines 323-326 (and 363-364 when copy2 raises).
FfmpegBackup ==
    /\ pc = "ffmpeg_backup"
    /\ \E outcome \in CopyOutcomes :
          /\ disk' = [disk EXCEPT !["backup_filepath_ffmpeg"] =
                                      BackupAfterCopy(outcome, @)]
          /\ original_file_backed_up_ffmpeg' = (outcome = "copied")
          /\ pc' = IF outcome = "copied" THEN "ffmpeg_run" ELSE "ffmpeg_finally"
          /\ log' = IF outcome = "copied" THEN log
                     ELSE log \cup {<<"ffmpeg", "backup_failed">>}
    /\ UNCHANGED <<varsRun, varsQ, varsSave>>
    /\ UNCHANGED <<rewritten_by, is_mp3, process_ffmpeg,
                   attempt_repair_mp3val_if_needed,
                   attempt_repair_ffmpeg_if_needed, MP3VAL_PATH, FFMPEG_PATH,
                   original_error_for_ffmpeg_check, original_file_backed_up_mp3val,
                   mp3val_repair_led_to_fp, ffmpeg_repair_led_to_fp, result>>

\* Mutant of FfmpegOutputUsable: the return code is not looked at.
FfmpegOutputUsable_AnyExit(returncode, output) ==
    output # "absent" /\ output # "empty"

\* Line 339: the test that lets the FFmpeg output replace the original.
FfmpegOutputUsable(returncode, output) ==
    returncode = 0 /\ output # "absent" /\ output # "empty"

\* Lines 330-339 and 356-364: FFmpeg reads filepath and writes
\* temp_output_filepath.  The command may be missing; otherwise it exits with
\* status 0 or not, having written no output, an empty one or a non-empty one.
FfmpegRun ==
    /\ pc = "ffmpeg_run"
    /\ \/ /\ pc' = "ffmpeg_finally"             \* FileNotFoundError
          /\ log' = log \cup {<<"ffmpeg", "not_found">>}
          /\ disk' = disk
          /\ process_ffmpeg' = process_ffmpeg
       \/ \E returncode \in {0, 1}, output \in {"absent", "empty", "ffmpeg_out"} :
             /\ disk' = [disk EXCEPT !["temp_output_filepath"] = output]
             /\ process_ffmpeg' = [ran |-> TRUE, returncode |-> returncode]
             /\ pc' = IF FfmpegOutputUsable(returncode, output)
                      THEN "ffmpeg_replace" ELSE "ffmpeg_finally"
             /\ log' = log
    /\ UNCHANGED <<varsRun, varsQ, varsSave>>
    /\ UNCHANGED <<rewritten_by, is_mp3, attempt_repair_mp3val_if_needed,
                   attempt_repair_ffmpeg_if_needed, MP3VAL_PATH, FFMPEG_PATH,
                   original_error_for_ffmpeg_check, original_file_backed_up_mp3val,
                   mp3val_repair_led_to_fp, original_file_backed_up_ffmpeg,
                   ffmpeg_repair_led_to_fp, result>>

\* Line 342: shutil.move(temp_output_filepath, filepath); it may raise
\* (line 363), leaving both paths as they were.
FfmpegReplace ==
    /\ pc = "ffmpeg_replace"
    /\ \E moved \in BOOLEAN :
          /\ disk' = IF moved
                     THEN [disk EXCEPT !["filepath"] = disk["temp_output_filepath"],
                                       !["temp_output_filepath"] = "absent"]
                     ELSE disk
          /\ rewritten_by' = IF moved THEN rewritten_by \cup {"ffmpeg"} ELSE rewritten_by
          /\ pc' = IF moved THEN "ffmpeg_refp" ELSE "ffmpeg_finally"
          /\ log' = IF moved THEN log ELSE log \cup {<<"ffmpeg", "replace_failed">>}
    /\ UNCHANGED <<varsRun, varsQ, varsSave>>
    /\ UNCHANGED <<is_mp3, process_ffmpeg,
                   attempt_repair_mp3val_if_needed,
                   attempt_repair_ffmpeg_if_needed, MP3VAL_PATH, FFMPEG_PATH,
                   original_error_for_ffmpeg_check, original_file_backed_up_mp3val,
                   mp3val_repair_led_to_fp, original_file_backed_up_ffmpeg,
                   ffmpeg_repair_led_to_fp, result>>

\* Lines 346-355: the fingerprint retry after FFmpeg.
FfmpegRefingerprint ==
    /\ pc = "ffmpeg_refp"
    /\ \E ok \in BOOLEAN :
          /\ ffmpeg_repair_led_to_fp' = ok
          /\ result' = IF ok THEN "fp" ELSE result
    /\ pc' = "ffmpeg_finally"
    /\ UNCHANGED <<varsRun, varsQ, varsSave>>
    /\ UNCHANGED <<rewritten_by, disk, is_mp3, process_ffmpeg,
                   attempt_repair_mp3val_if_needed,
                   attempt_repair_ffmpeg_if_needed, MP3VAL_PATH, FFMPEG_PATH,
                   original_error_for_ffmpeg_check, original_file_backed_up_mp3val,
                   mp3val_repair_led_to_fp, original_file_backed_up_ffmpeg, log>>

\* Lines 366-368: os.remove(temp_output_filepath) if it exists; OSError is passed over.
RemoveTempOutput(d, removed) ==
    IF d["temp_output_filepath"] # "absent" /\ removed
    THEN [d EXCEPT !["temp_output_filepath"] = "absent"] ELSE d

\* Lines 365-385: the finally block of the FFmpeg stage, and the return after it.
FfmpegFinally ==
    /\ pc = "ffmpeg_finally"
    /\ \E temp_removed \in BOOLEAN, removed \in BOOLEAN, outcome \in RestoreOutcomes :
          LET d1 == RemoveTempOutput(disk, temp_removed) IN
          IF original_file_backed_up_ffmpeg
          THEN /\ disk' = IF ffmpeg_repair_led_to_fp
                          THEN RemoveBackup(d1, "backup_filepath_ffmpeg", removed)
                          ELSE RestoreFromBackup(d1, "backup_filepath_ffmpeg", outcome)
               /\ log' = log \cup FinallyLog("ffmpeg", "backup_filepath_ffmpeg",
                                             ffmpeg_repair_led_to_fp, removed, outcome)
          ELSE /\ disk' = d1
               /\ log' = log
    /\ pc' = "done"
    /\ result' = IF ffmpeg_repair_led_to_fp THEN "fp" ELSE "none"
    /\ UNCHANGED <<varsRun, varsQ, varsSave>>
    /\ UNCHANGED <<rewritten_by, is_mp3, process_ffmpeg,
                   attempt_repair_mp3val_if_needed,
                   attempt_repair_ffmpeg_if_needed, MP3VAL_PATH, FFMPEG_PATH,
                   original_error_for_ffmpeg_check, original_file_backed_up_mp3val,
                   mp3val_repair_led_to_fp, original_file_backed_up_ffmpeg,
                   ffmpeg_repair_led_to_fp>>

NextRepair ==
    \/ PrimaryAttempt
    \/ Stage1Gate
    \/ Mp3valBackup
    \/ Mp3valRun
    \/ Mp3valRefingerprint
    \/ Mp3valFinally
    \/ Stage2Gate
    \/ FfmpegBackup
    \/ FfmpegRun
    \/ FfmpegReplace
    \/ FfmpegRefingerprint
    \/ FfmpegFinally

SpecRepair == InitRepair /\ [][NextRepair]_vars

\* get_audio_fingerprint is sequential code without a loop, and every call
\* it makes returns or raises: acoustid.fingerprint_file, shutil.copy2,
\* shutil.move, os.remove, and subprocess.run once the tool has ended.  A
\* step of the call that is possible is taken.
FairRepair == WF_vars(NextRepair)

SpecRepairFair == InitRepair /\ [][NextRepair]_vars /\ FairRepair

(***************************************************************************)
(*              main: duplicate identification (lines 914-930)             *)
(***************************************************************************)

\* Bounds of the duplicate-identification model.
MaxGroupSize == 3
FileSizes == {1, 2}

EmptyMap == <<>>

Range(seq) == {seq[i] : i \in DOMAIN seq}

PathSet == Range(PathTable)

\* The sequences without repetition over a set, of the given lengths.
InjectiveSeqs(S, lengths) ==
    UNION {{q \in [1..n -> S] : \A i, j \in 1..n : i # j => q[i] # q[j]} : n \in lengths}

\* The variables of get_audio_fingerprint while only main is looked at.
RepairIdle ==
    /\ pc = "idle"
    /\ disk = [p \in RepairPaths |-> "absent"]
    /\ is_mp3 = FALSE
    /\ process_ffmpeg = NotRun
    /\ attempt_repair_mp3val_if_needed = FALSE
    /\ attempt_repair_ffmpeg_if_needed = FALSE
    /\ MP3VAL_PATH = FALSE
    /\ FFMPEG_PATH = FALSE
    /\ original_error_for_ffmpeg_check = FALSE
    /\ original_file_backed_up_mp3val = FALSE
    /\ mp3val_repair_led_to_fp = FALSE
    /\ original_file_backed_up_ffmpeg = FALSE
    /\ ffmpeg_repair_led_to_fp = FALSE
    /\ result = "pending"
    /\ log = {}
    /\ rewritten_by = {}

\* A file that is not on disk, and the files that are.
NoFile == [exists |-> FALSE, mtime |-> 0, size |-> 0]
FileStates(mtimes, sizes) ==
    {NoFile} \cup {[exists |-> TRUE, mtime |-> m, size |-> z] : m \in mtimes, z \in sizes}

\* Lines 922-925: os.path.getsize, 0 when the file is not there.
size_sort(filepath) == IF fs[filepath].exists THEN fs[filepath].size ELSE 0

\* Mutant of sort_key_for_duplicates: the size is not negated.
sort_key_for_duplicates_SmallFirst(filepath) ==
    <<is_in_target_path_pattern(filepath, UNSORTED_PATH_MARKER_SEGMENTS),
      size_sort(filepath), filepath>>

\* Mutant of sort_key_for_duplicates: the path is left out of the key.
sort_key_for_duplicates_NoPath(filepath) ==
    <<is_in_target_path_pattern(filepath, UNSORTED_PATH_MARKER_SEGMENTS),
      0 - size_sort(filepath), <<>> >>

\* Mutant of sort_key_for_duplicates: the folder is not looked at.
sort_key_for_duplicates_NoFolder(filepath) ==
    <<FALSE, 0 - size_sort(filepath), filepath>>

\* Lines 920-926.
sort_key_for_duplicates(filepath) ==
    <<is_in_target_path_pattern(filepath, UNSORTED_PATH_MARKER_SEGMENTS),
      0 - size_sort(filepath), filepath>>

\* Python's < on the key tuples (bool, int, str): False < True, then the
\* integers, then the strings.
KeyLess(k1, k2) ==
    IF k1[1] # k2[1] THEN k2[1]
    ELSE IF k1[2] # k2[2] THEN k1[2] < k2[2]
    ELSE StrLess(k1[3], k2[3])

\* list.sort(key=...) is stable: an element goes before the first element
\* whose key is greater than its own.
RECURSIVE InsertByKey(_, _)
InsertByKey(sorted, x) ==
    IF sorted = <<>> THEN <<x>>
    ELSE IF KeyLess(sort_key_for_duplicates(x), sort_key_for_duplicates(Head(sorted)))
         THEN <<x>> \o sorted
         ELSE <<Head(sorted)>> \o InsertByKey(Tail(sorted), x)

RECURSIVE SortFrom(_, _, _)
SortFrom(files_list, i, sorted) ==
    IF i > Len(files_list) THEN sorted
    ELSE SortFrom(files_list, i + 1, InsertByKey(sorted, files_list[i]))

\* Line 927: files_list.sort(key=sort_key_for_duplicates)
SortFiles(files_list) == SortFrom(files_list, 1, <<>>)

\* Line 919: the groups that yield a duplicate set.
GroupsWithDuplicates == {k \in DOMAIN fingerprint_map : Len(fingerprint_map[k]) > 1}

\* Lines 918-930: every group with more than one file is sorted in place;
\* its first file is the canonical one, the others its duplicates.  (No path
\* is in two groups, so no two groups share their first file.)
IdentifyDuplicates ==
    /\ run_pc = "identify"
    /\ fingerprint_map' =
          [k \in DOMAIN fingerprint_map |->
              IF k \in GroupsWithDuplicates THEN SortFiles(fingerprint_map[k])
                                            ELSE fingerprint_map[k]]
    /\ duplicates' =
          LET canonical_file(k) == SortFiles(fingerprint_map[k])[1]
              canonicals == {canonical_file(k) : k \in GroupsWithDuplicates}
          IN [c \in canonicals |->
                 LET k == CHOOSE g \in GroupsWithDuplicates : canonical_file(g) = c
                 IN Tail(SortFiles(fingerprint_map[k]))]
    /\ run_pc' = "identified"
    /\ UNCHANGED <<args, can_fingerprint_system_ok, fs, audio_files, loop_i, fp_cache_from_disk,
                   current_run_valid_cache_entries, files_needing_fingerprinting,
                   futures, obtained, cache_file, fs_at_start, runs>>
    /\ UNCHANGED <<varsRepair, varsQ, varsSave>>

(***************************************************************************)
(*     main: cache validation and fingerprinting (lines 808-912)           *)
(***************************************************************************)

\* Bound of the run model: the number of audio files the walk finds.
NumFiles == 2

\* ---- dict operations on cache entries ----
Update(entry, new) ==
    [k \in DOMAIN entry \cup DOMAIN new |-> IF k \in DOMAIN new THEN new[k] ELSE entry[k]]

\* Mutant of Pop: the key stays.
Pop_Keep(entry, key) == entry

\* dict.pop(key, None)
Pop(entry, key) == [k \in DOMAIN entry \ {key} |-> entry[k]]

Put(map, key, value) ==
    [k \in DOMAIN map \cup {key} |-> IF k = key THEN value ELSE map[k]]

\* ---- bytes.hex() and bytes.fromhex() ----
HexDigits == <<"0", "1", "2", "3", "4", "5", "6", "7", "8", "9",
               "a", "b", "c", "d", "e", "f">>

\* bytes.hex(): two lower-case digits per byte.
RECURSIVE Hex(_)
Hex(fp_bytes) ==
    IF fp_bytes = <<>> THEN <<>>
    ELSE <<HexDigits[(Head(fp_bytes) \div 16) + 1], HexDigits[(Head(fp_bytes) % 16) + 1]>>
             \o Hex(Tail(fp_bytes))

\* The value of a hex digit of either case, -1 for any other character.
HexValue(c) ==
    IF \E i \in DOMAIN HexDigits : HexDigits[i] = LowerChar(c)
    THEN (CHOOSE i \in DOMAIN HexDigits : HexDigits[i] = LowerChar(c)) - 1
    ELSE 0 - 1

\* bytes.fromhex() raises ValueError on an odd length or a non-hex character.
FromHexRaises(hex) ==
    \/ Len(hex) % 2 # 0
    \/ \E i \in DOMAIN hex : HexValue(hex[i]) < 0

FromHex(hex) ==
    [i \in 1..(Len(hex) \div 2) |-> 16 * HexValue(hex[2 * i - 1]) + HexValue(hex[2 * i])]

\* ---- round() ----
\* Durations are counted in half seconds.  Python's round() goes to the
\* nearest integer, a tie to the even one.
PyRound(duration) ==
    LET whole == duration \div 2 IN
    IF duration % 2 = 0 THEN whole
    ELSE IF whole % 2 = 0 THEN whole ELSE whole + 1

\* ---- the values of the run model ----
RunFiles == {PathTable[i] : i \in 1..NumFiles}

\* What a file's entry in the cache file can be: the entries an earlier run
\* writes for it (stat alone, or stat with fingerprint and duration, with or
\* without the ignore flag), for the file as it is now or as it was before a
\* change of mtime or size, and entries damaged since.
CacheEntriesFor(file) ==
    LET stat == [mtime |-> file.mtime, size |-> file.size]
        ab == Hex(<<171>>)
    IN { stat,
         Update(stat, [fingerprint_hex |-> ab, duration |-> 4,
                       low_bitrate_ignored |-> TRUE]),
         Update(stat, [fingerprint_hex |-> <<"A", "B">>, duration |-> 5]),
         Update(stat, [fingerprint_hex |-> Hex(<<205>>), duration |-> 7]),
         Update(stat, [fingerprint_hex |-> <<"a", "b", "c">>, duration |-> 4]),
         Update(stat, [fingerprint_hex |-> ab]),
         [mtime |-> file.mtime + 1, size |-> file.size,
          fingerprint_hex |-> ab, duration |-> 4, low_bitrate_ignored |-> TRUE],
         [mtime |-> file.mtime, size |-> file.size + 1,
          fingerprint_hex |-> ab, duration |-> 4] }

\* The run from the loaded cache to the duplicate sets: any order of the
\* walk, any cache file, with or without --force-re-fingerprint.
InitRun ==
    /\ RepairIdle
    /\ SaveIdle
    /\ QIdle
    /\ run_pc = "load_cache"
    /\ can_fingerprint_system_ok = TRUE
    /\ \E force \in BOOLEAN : args = [force_re_fingerprint |-> force, skip_duplicates |-> FALSE]
    /\ audio_files \in InjectiveSeqs(RunFiles, {NumFiles})
    /\ fs \in [RunFiles -> FileStates({1}, {2})]
    /\ fs_at_start = fs
    /\ runs = 1
    /\ \E cached \in SUBSET RunFiles :
          cache_file \in {m \in [cached -> UNION {CacheEntriesFor(fs[p]) : p \in cached}] :
                             \A p \in cached : m[p] \in CacheEntriesFor(fs[p])}
    /\ loop_i = 1
    /\ fp_cache_from_disk = EmptyMap
    /\ current_run_valid_cache_entries = EmptyMap
    /\ fingerprint_map = EmptyMap
    /\ files_needing_fingerprinting = <<>>
    /\ futures = EmptyMap
    /\ duplicates = EmptyMap
    /\ obtained = EmptyMap

\* ---- the cache file as JSON ----
\* A cache file that holds a JSON object is the map of the object's members.
\* A file that holds anything else is a stand-in that names what it holds:
\* a text json.load cannot parse, bytes that are not UTF-8, or a JSON value
\* of another type.
OtherContent(kind) == (<<"json">> :> kind)
IsOtherContent(content) == <<"json">> \in DOMAIN content
ContentKinds == {"unparseable", "undecodable", "array", "string", "number", "null"}

\* A member of the JSON object that is not itself an object: a number, a
\* string, an array, null; truthy or not as Python sees it.
OtherValue(kind, truthy) == [json |-> kind, truthy |-> truthy]
IsOtherValue(value) == "json" \in DOMAIN value
OtherValues ==
    {OtherValue("number", TRUE), OtherValue("string", TRUE),
     OtherValue("array", FALSE), OtherValue("null", FALSE)}

\* Lines 80-91: what load_fingerprint_cache does with the content of the
\* file.  json.JSONDecodeError is caught and {} returned; the decoding
\* error of open(..., encoding='utf-8') is not caught; the value parsed is
\* returned whatever its type once len() has been taken of it for the log
\* line, and len() of a number or of None raises TypeError.
load_fingerprint_cache(content) ==
    IF ~IsOtherContent(content)
    THEN [raised |-> "no", cache_data |-> content]
    ELSE CASE content[<<"json">>] = "unparseable" ->
                  [raised |-> "no", cache_data |-> EmptyMap]
           [] content[<<"json">>] = "undecodable" ->
                  [raised |-> "UnicodeDecodeError", cache_data |-> EmptyMap]
           [] content[<<"json">>] \in {"array", "string"} ->
                  [raised |-> "no", cache_data |-> content]
           [] OTHER ->
                  [raised |-> "TypeError", cache_data |-> EmptyMap]

\* Lines 815-816: the cache file is read unless --force-re-fingerprint.  An
\* exception load_fingerprint_cache lets through is caught nowhere in main:
\* the run ends with a traceback.
LoadCache ==
    /\ run_pc = "load_cache"
    /\ LET loaded == load_fingerprint_cache(cache_file)
       IN IF args.force_re_fingerprint
          THEN /\ fp_cache_from_disk' = EmptyMap
               /\ run_pc' = "validate"
          ELSE IF loaded.raised # "no"
          THEN /\ fp_cache_from_disk' = fp_cache_from_disk
               /\ run_pc' = "raised"
          ELSE /\ fp_cache_from_disk' = loaded.cache_data
               /\ run_pc' = "validate"
    /\ loop_i' = 1
    /\ UNCHANGED <<args, can_fingerprint_system_ok, fs, audio_files, current_run_valid_cache_entries,
                   fingerprint_map, files_needing_fingerprinting, futures, duplicates,
                   obtained, cache_file, fs_at_start, runs>>
    /\ UNCHANGED <<varsRepair, varsQ, varsSave>>

\* Mutant of CacheEntryMatches: mtime and size compared crosswise.
CacheEntryMatches_Crossed(disk_cached_entry, current_mtime, current_size) ==
    /\ disk_cached_entry # <<>>
    /\ "mtime" \in DOMAIN disk_cached_entry /\ disk_cached_entry.mtime = current_size
    /\ "size" \in DOMAIN disk_cached_entry /\ disk_cached_entry.size = current_mtime

\* Lines 827-829: the entry is there (and not empty) and its mtime and size
\* are those of the file.
CacheEntryMatches(disk_cached_entry, current_mtime, current_size) ==
    /\ disk_cached_entry # <<>>
    /\ "mtime" \in DOMAIN disk_cached_entry /\ disk_cached_entry.mtime = current_mtime
    /\ "size" \in DOMAIN disk_cached_entry /\ disk_cached_entry.size = current_size

\* Lines 825-829: fp_cache_from_disk.get(abs_f_path) raises AttributeError
\* when the loaded value is not a dict, and disk_cached_entry.get("mtime")
\* raises it when the entry is truthy and not a dict.
GetRaises(cache_data, abs_f_path) ==
    \/ IsOtherContent(cache_data)
    \/ /\ abs_f_path \in DOMAIN cache_data
       /\ IsOtherValue(cache_data[abs_f_path])
       /\ cache_data[abs_f_path].truthy

\* Lines 819-836, one iteration: a file that is there gets a working entry,
\* the copy of its cache entry if that matches, else its mtime and size alone.
\* The try of lines 822-836 catches OSError only: an AttributeError ends the
\* run.
ValidateCacheState ==
    /\ run_pc = "validate"
    /\ loop_i <= Len(audio_files)
    /\ LET abs_f_path == audio_files[loop_i]
           disk_cached_entry == IF abs_f_path \in DOMAIN fp_cache_from_disk
                                THEN fp_cache_from_disk[abs_f_path] ELSE <<>>
           current_mtime == fs[abs_f_path].mtime
           current_size == fs[abs_f_path].size
       IN IF fs[abs_f_path].exists /\ GetRaises(fp_cache_from_disk, abs_f_path)
          THEN /\ run_pc' = "raised"
               /\ UNCHANGED <<loop_i, current_run_valid_cache_entries>>
          ELSE /\ current_run_valid_cache_entries' =
                      IF ~fs[abs_f_path].exists THEN current_run_valid_cache_entries
                      ELSE IF CacheEntryMatches(disk_cached_entry, current_mtime, current_size)
                           THEN Put(current_run_valid_cache_entries, abs_f_path, disk_cached_entry)
                           ELSE Put(current_run_valid_cache_entries, abs_f_path,
                                    [mtime |-> current_mtime, size |-> current_size])
               /\ loop_i' = loop_i + 1
               /\ run_pc' = run_pc
    /\ UNCHANGED <<args, can_fingerprint_system_ok, fs, audio_files, fp_cache_from_disk, fingerprint_map,
                   files_needing_fingerprinting, futures, duplicates, obtained,
                   cache_file, fs_at_start, runs>>
    /\ UNCHANGED <<varsRepair, varsQ, varsSave>>

\* Lines 759, 840-846 and 1113: the fingerprint stage (preparation, worker
\* tasks, identification, duplicate session) is run unless --skip-duplicates
\* was given or fpcalc was not found.
did_fingerprint_stage_run_attempted ==
    ~args.skip_duplicates /\ can_fingerprint_system_ok

\* Lines 840-850: the validation loop is over, duplicate detection is not
\* skipped, the preparation loop begins.
StartPreparing ==
    /\ run_pc = "validate"
    /\ loop_i > Len(audio_files)
    /\ did_fingerprint_stage_run_attempted
    /\ run_pc' = "prepare"
    /\ loop_i' = 1
    /\ UNCHANGED <<args, can_fingerprint_system_ok, fs, audio_files, fp_cache_from_disk,
                   current_run_valid_cache_entries, fingerprint_map,
                   files_needing_fingerprinting, futures, duplicates, obtained,
                   cache_file, fs_at_start, runs>>
    /\ UNCHANGED <<varsRepair, varsQ, varsSave>>

\* Mutant of WorkingCacheKeys: the preparation loop goes over a list that
\* names every file twice instead of over the keys of a dict.
WorkingCacheKeys_Repeated ==
    LET keys == SelectSeq(audio_files, LAMBDA p : p \in DOMAIN current_run_valid_cache_entries)
    IN keys \o keys

\* The keys of current_run_valid_cache_entries in insertion order: the
\* entries are inserted in the order of audio_files.
WorkingCacheKeys ==
    SelectSeq(audio_files, LAMBDA p : p \in DOMAIN current_run_valid_cache_entries)

\* Mutant of MapAppend: the append of another writer is lost.
MapAppend_Overwrite(map, key, path) == Put(map, key, <<path>>)

\* defaultdict(list): fingerprint_map[key].append(path)
MapAppend(map, key, path) ==
    IF key \in DOMAIN map THEN [map EXCEPT ![key] = Append(@, path)]
    ELSE Put(map, key, <<path>>)

\* Lines 863-864: the group key of a cached fingerprint.
CachedKey(entry_data) ==
    <<FromHex(entry_data.fingerprint_hex), PyRound(entry_data.duration)>>

\* Mutant of FreshKey: the duration is not rounded.
FreshKey_Unrounded(fp_bytes, duration) == <<fp_bytes, duration>>

\* Line 888: the group key of a fresh fingerprint.
FreshKey(fp_bytes, duration) == <<fp_bytes, PyRound(duration)>>

\* Mutant of NeedsFingerprinting: every file is fingerprinted anew.
NeedsFingerprinting_Always(entry_data) == TRUE

\* Lines 857 and 865: the file has to be fingerprinted.
NeedsFingerprinting(entry_data) ==
    \/ args.force_re_fingerprint
    \/ "fingerprint_hex" \notin DOMAIN entry_data
    \/ "duration" \notin DOMAIN entry_data
    \/ FromHexRaises(entry_data.fingerprint_hex)

\* Lines 851-867, one iteration.
PrepareForFingerprinting ==
    /\ run_pc = "prepare"
    /\ loop_i <= Len(WorkingCacheKeys)
    /\ LET abs_filepath == WorkingCacheKeys[loop_i]
           entry_data == current_run_valid_cache_entries[abs_filepath]
       IN IF ~fs[abs_filepath].exists
          THEN UNCHANGED <<files_needing_fingerprinting, fingerprint_map, obtained>>
          ELSE IF NeedsFingerprinting(entry_data)
               THEN /\ files_needing_fingerprinting' =
                          Append(files_needing_fingerprinting, abs_filepath)
                    /\ UNCHANGED <<fingerprint_map, obtained>>
               ELSE /\ fingerprint_map' =
                          MapAppend(fingerprint_map, CachedKey(entry_data), abs_filepath)
                    /\ obtained' = Put(obtained, abs_filepath,
                                       <<FromHex(entry_data.fingerprint_hex),
                                         entry_data.duration>>)
                    /\ UNCHANGED files_needing_fingerprinting
    /\ loop_i' = loop_i + 1
    /\ UNCHANGED <<run_pc, args, can_fingerprint_system_ok, fs, audio_files, fp_cache_from_disk,
                   current_run_valid_cache_entries, futures, duplicates,
                   cache_file, fs_at_start, runs>>
    /\ UNCHANGED <<varsRepair, varsQ, varsSave>>

\* Lines 869-882: every file of files_needing_fingerprinting is submitted to
\* the executor; with none to submit the run goes on to the identification.
SubmitAll ==
    /\ run_pc = "prepare"
    /\ loop_i > Len(WorkingCacheKeys)
    /\ futures' = [p \in Range(files_needing_fingerprinting) |->
                      [state |-> "pending", result |-> <<>>, raised |-> FALSE]]
    /\ run_pc' = IF files_needing_fingerprinting = <<>> THEN "identify" ELSE "collect"
    /\ loop_i' = 1
    /\ UNCHANGED <<args, can_fingerprint_system_ok, fs, audio_files, fp_cache_from_disk,
                   current_run_valid_cache_entries, fingerprint_map,
                   files_needing_fingerprinting, duplicates, obtained,
                   cache_file, fs_at_start, runs>>
    /\ UNCHANGED <<varsRepair, varsQ, varsSave>>

\* What get_audio_fingerprint returns: (duration, fp_bytes) or (None, None),
\* here <<>>.
AnalysisResults ==
    {<<>>} \cup {[duration |-> 4, fp_bytes |-> <<171>>],
                 [duration |-> 5, fp_bytes |-> <<171>>],
                 [duration |-> 7, fp_bytes |-> <<205>>]}

\* A worker thread runs get_audio_fingerprint on one submitted file.  The
\* call may leave the file rewritten when a repair option is on (a repair
\* that worked, or one that failed and could not be undone): a new mtime and
\* another size.  The call returns, or it ends with an exception raised in
\* the handler of the first failure outside the inner try blocks (the print
\* of line 232 or 313); the future is done either way.
WorkerRun(fp_path) ==
    /\ run_pc = "collect"
    /\ fp_path \in DOMAIN futures
    /\ futures[fp_path].state = "pending"
    /\ \/ \E res \in AnalysisResults :
             futures' = [futures EXCEPT ![fp_path] =
                            [state |-> "done", result |-> res, raised |-> FALSE]]
       \/ futures' = [futures EXCEPT ![fp_path] =
                         [state |-> "done", result |-> <<>>, raised |-> TRUE]]
    /\ \/ fs' = fs
       \/ /\ fs[fp_path].exists
          /\ fs' = [fs EXCEPT ![fp_path] =
                       [exists |-> TRUE, mtime |-> fs[fp_path].mtime + 1,
                        size |-> fs[fp_path].size + 1]]
    /\ UNCHANGED <<run_pc, args, can_fingerprint_system_ok, audio_files, loop_i, fp_cache_from_disk,
                   current_run_valid_cache_entries, fingerprint_map,
                   files_needing_fingerprinting, duplicates, obtained,
                   cache_file, fs_at_start, runs>>
    /\ UNCHANGED <<varsRepair, varsQ, varsSave>>

\* Mutant of AfterResult: an exception ends the run.
AfterResult_Abort(raised, stat_failed) ==
    IF raised \/ stat_failed THEN "raised" ELSE "collect"

\* Lines 905-908: what follows one result.  The OSError of getmtime or
\* getsize and any exception future.result() re-raises are logged, and the
\* loop goes on with the next future.
AfterResult(raised, stat_failed) == "collect"

\* Lines 883-908, one iteration: future.result() of the next future in
\* submission order, once its task is done.
CollectResult ==
    /\ run_pc = "collect"
    /\ loop_i <= Len(files_needing_fingerprinting)
    /\ LET abs_filepath_processed == files_needing_fingerprinting[loop_i]
           future == futures[abs_filepath_processed]
       IN /\ future.state = "done"
          /\ run_pc' = AfterResult(future.raised,
                                   future.result # <<>>
                                       /\ ~fs[abs_filepath_processed].exists)
          /\ IF future.result = <<>>
             THEN UNCHANGED <<fingerprint_map, current_run_valid_cache_entries, obtained>>
             ELSE LET duration == future.result.duration
                      fp_bytes == future.result.fp_bytes
                      entry == IF abs_filepath_processed
                                     \in DOMAIN current_run_valid_cache_entries
                               THEN current_run_valid_cache_entries[abs_filepath_processed]
                               ELSE <<>>
                  IN /\ fingerprint_map' = MapAppend(fingerprint_map,
                                                     FreshKey(fp_bytes, duration),
                                                     abs_filepath_processed)
                     /\ obtained' = Put(obtained, abs_filepath_processed,
                                        <<fp_bytes, duration>>)
                     /\ current_run_valid_cache_entries' =
                           IF ~fs[abs_filepath_processed].exists     \* OSError, line 905
                           THEN current_run_valid_cache_entries
                           ELSE Put(current_run_valid_cache_entries,
                                    abs_filepath_processed,
                                    Pop(Update(entry,
                                               [fingerprint_hex |-> Hex(fp_bytes),
                                                duration |-> duration,
                                                mtime |-> fs[abs_filepath_processed].mtime,
                                                size |-> fs[abs_filepath_processed].size]),
                                        "low_bitrate_ignored"))
    /\ loop_i' = loop_i + 1
    /\ UNCHANGED <<args, can_fingerprint_system_ok, fs, audio_files, fp_cache_from_disk,
                   files_needing_fingerprinting, futures, duplicates,
                   cache_file, fs_at_start, runs>>
    /\ UNCHANGED <<varsRepair, varsQ, varsSave>>

\* Lines 883 and 914-917: every result is in, the executor is shut down,
\* the identification begins.
FinishCollecting ==
    /\ run_pc = "collect"
    /\ loop_i > Len(files_needing_fingerprinting)
    /\ \A p \in DOMAIN futures : futures[p].state = "done"
    /\ run_pc' = "identify"
    /\ UNCHANGED <<args, can_fingerprint_system_ok, fs, audio_files, loop_i, fp_cache_from_disk,
                   current_run_valid_cache_entries, fingerprint_map,
                   files_needing_fingerprinting, futures, duplicates, obtained,
                   cache_file, fs_at_start, runs>>
    /\ UNCHANGED <<varsRepair, varsQ, varsSave>>

\* Duplicate identification on its own: one fingerprint group of any
\* membership and insertion order, over files of any size, some of them gone
\* from disk since they were fingerprinted.
InitDup ==
    /\ RepairIdle
    /\ SaveIdle
    /\ QIdle
    /\ run_pc = "identify"
    /\ can_fingerprint_system_ok = TRUE
    /\ args = [force_re_fingerprint |-> FALSE, skip_duplicates |-> FALSE]
    /\ \E files_list \in InjectiveSeqs(PathSet, 1..MaxGroupSize) :
          /\ fingerprint_map = (<< <<171>>, 2 >> :> files_list)
          /\ fs \in [Range(files_list) -> FileStates({1}, FileSizes)]
    /\ audio_files = <<>>
    /\ loop_i = 1
    /\ fp_cache_from_disk = EmptyMap
    /\ current_run_valid_cache_entries = EmptyMap
    /\ files_needing_fingerprinting = <<>>
    /\ futures = EmptyMap
    /\ duplicates = EmptyMap
    /\ obtained = EmptyMap
    /\ cache_file = EmptyMap
    /\ fs_at_start = fs
    /\ runs = 1

NextDup == IdentifyDuplicates

SpecDup == InitDup /\ [][NextDup]_vars

NextRun ==
    \/ LoadCache
    \/ ValidateCacheState
    \/ StartPreparing
    \/ PrepareForFingerprinting
    \/ SubmitAll
    \/ \E fp_path \in DOMAIN futures : WorkerRun(fp_path)
    \/ CollectResult
    \/ FinishCollecting
    \/ IdentifyDuplicates

SpecRun == InitRun /\ [][NextRun]_vars

\* The same run over a cache file of any content: a JSON object with
\* well-formed members, one with a member that is not an object, or no JSON
\* object at all.
InitLoad ==
    /\ RepairIdle
    /\ SaveIdle
    /\ QIdle
    /\ run_pc = "load_cache"
    /\ can_fingerprint_system_ok = TRUE
    /\ \E force \in BOOLEAN : args = [force_re_fingerprint |-> force, skip_duplicates |-> FALSE]
    /\ audio_files \in InjectiveSeqs(RunFiles, {NumFiles})
    /\ fs \in [RunFiles -> FileStates({1}, {2})]
    /\ fs_at_start = fs
    /\ runs = 1
    /\ \/ cache_file \in {OtherContent(kind) : kind \in ContentKinds}
       \/ \E cached \in SUBSET RunFiles :
             cache_file \in [cached -> OtherValues \cup
                                       {[mtime |-> 1, size |-> 2],
                                        [mtime |-> 1, size |-> 2,
                                         fingerprint_hex |-> Hex(<<171>>), duration |-> 4]}]
    /\ loop_i = 1
    /\ fp_cache_from_disk = EmptyMap
    /\ current_run_valid_cache_entries = EmptyMap
    /\ fingerprint_map = EmptyMap
    /\ files_needing_fingerprinting = <<>>
    /\ futures = EmptyMap
    /\ duplicates = EmptyMap
    /\ obtained = EmptyMap

SpecLoad == InitLoad /\ [][NextRun]_vars

\* One file from its submission to the handling of its result, with
\* get_audio_fingerprint taken step by step: an MP3 or a FLAC file, with or
\* without the ignore flag of an earlier run in its working entry.
PipelineFiles == {PathTable[1], PathTable[3]}

InitPipeline ==
    /\ pc = "primary"
    /\ disk = [p \in RepairPaths |-> IF p = "filepath" THEN OriginalBytes ELSE "absent"]
    /\ MP3VAL_PATH \in BOOLEAN
    /\ FFMPEG_PATH \in BOOLEAN
    /\ \E auto_repair_mp3 \in BOOLEAN :
          attempt_repair_mp3val_if_needed = (auto_repair_mp3 /\ MP3VAL_PATH)
    /\ \E auto_repair_ffmpeg \in BOOLEAN :
          attempt_repair_ffmpeg_if_needed = (auto_repair_ffmpeg /\ FFMPEG_PATH)
    /\ original_error_for_ffmpeg_check = FALSE
    /\ original_file_backed_up_mp3val = FALSE
    /\ mp3val_repair_led_to_fp = FALSE
    /\ original_file_backed_up_ffmpeg = FALSE
    /\ ffmpeg_repair_led_to_fp = FALSE
    /\ result = "pending"
    /\ log = {}
    /\ rewritten_by = {}
    /\ SaveIdle
    /\ QIdle
    /\ run_pc = "collect"
    /\ can_fingerprint_system_ok = TRUE
    /\ args = [force_re_fingerprint |-> FALSE, skip_duplicates |-> FALSE]
    /\ \E fp_path \in PipelineFiles, flagged \in BOOLEAN :
          /\ is_mp3 = EndsWith(Lower(fp_path), <<".", "m", "p", "3">>)
          /\ process_ffmpeg = NotRun
          /\ audio_files = <<fp_path>>
          /\ files_needing_fingerprinting = <<fp_path>>
          /\ fs = (fp_path :> [exists |-> TRUE, mtime |-> 1, size |-> 2])
          /\ current_run_valid_cache_entries =
                (fp_path :> IF flagged
                            THEN [mtime |-> 1, size |-> 2, low_bitrate_ignored |-> TRUE]
                            ELSE [mtime |-> 1, size |-> 2])
          /\ futures = (fp_path :> [state |-> "pending", result |-> <<>>,
                                    raised |-> FALSE])
    /\ fs_at_start = fs
    /\ runs = 1
    /\ loop_i = 1
    /\ fp_cache_from_disk = EmptyMap
    /\ fingerprint_map = EmptyMap
    /\ duplicates = EmptyMap
    /\ obtained = EmptyMap
    /\ cache_file = EmptyMap

\* The call has returned: its future is done with the pair it returned, and
\* the file has another mtime and size when the call left other bytes in it.
WorkerReturn ==
    /\ run_pc = "collect"
    /\ pc = "done"
    /\ LET fp_path == files_needing_fingerprinting[1]
       IN /\ futures[fp_path].state = "pending"
          /\ \E res \in AnalysisResults :
                /\ (res = <<>>) <=> (result = "none")
                /\ futures' = [futures EXCEPT ![fp_path] =
                                  [state |-> "done", result |-> res, raised |-> FALSE]]
          /\ fs' = IF disk["filepath"] = OriginalBytes THEN fs
                   ELSE [fs EXCEPT ![fp_path] =
                            [exists |-> TRUE, mtime |-> fs[fp_path].mtime + 1,
                             size |-> fs[fp_path].size + 1]]
    /\ UNCHANGED <<run_pc, args, can_fingerprint_system_ok, audio_files, loop_i, fp_cache_from_disk,
                   current_run_valid_cache_entries, fingerprint_map,
                   files_needing_fingerprinting, duplicates, obtained,
                   cache_file, fs_at_start, runs>>
    /\ UNCHANGED <<varsRepair, varsQ, varsSave>>

NextPipeline ==
    \/ NextRepair
    \/ WorkerReturn
    \/ CollectResult
    \/ FinishCollecting

SpecPipeline == InitPipeline /\ [][NextPipeline]_vars

\* The scenario of three files and no cache: A.mp3, B.mp3 in a folder named
\* Unsorted (under a folder named Music, or at the root of the tree), C.flac;
\* walked in any order, A and B of any size.
ScenarioA == PathTable[1]
ScenarioBs ==
    {PathTable[2],
     <<"/", "U", "n", "s", "o", "r", "t", "e", "d", "/", "B", ".", "m", "p", "3">>}
ScenarioC == PathTable[3]

InitScenario ==
    /\ RepairIdle
    /\ SaveIdle
    /\ QIdle
    /\ run_pc = "load_cache"
    /\ can_fingerprint_system_ok = TRUE
    /\ args = [force_re_fingerprint |-> FALSE, skip_duplicates |-> FALSE]
    /\ \E b \in ScenarioBs, size_a, size_b \in FileSizes :
          /\ audio_files \in InjectiveSeqs({ScenarioA, b, ScenarioC}, {3})
          /\ fs = [p \in {ScenarioA, b, ScenarioC} |->
                      [exists |-> TRUE, mtime |-> 1,
                       size |-> IF p = ScenarioA THEN size_a
                                ELSE IF p = b THEN size_b ELSE 2]]
    /\ fs_at_start = fs
    /\ runs = 1
    /\ cache_file = EmptyMap
    /\ loop_i = 1
    /\ fp_cache_from_disk = EmptyMap
    /\ current_run_valid_cache_entries = EmptyMap
    /\ fingerprint_map = EmptyMap
    /\ files_needing_fingerprinting = <<>>
    /\ futures = EmptyMap
    /\ duplicates = EmptyMap
    /\ obtained = EmptyMap

SpecScenario == InitScenario /\ [][NextRun]_vars

\* The fingerprinting phase on its own: no cache, every file on disk
\* queued, and files that vanish from disk while the workers run.
InitBatch ==
    /\ RepairIdle
    /\ SaveIdle
    /\ QIdle
    /\ run_pc = "load_cache"
    /\ can_fingerprint_system_ok = TRUE
    /\ \E force \in BOOLEAN : args = [force_re_fingerprint |-> force, skip_duplicates |-> FALSE]
    /\ audio_files = [i \in 1..NumFiles |-> PathTable[i]]
    /\ fs = [p \in RunFiles |-> [exists |-> TRUE, mtime |-> 1, size |-> 2]]
    /\ fs_at_start = fs
    /\ runs = 1
    /\ cache_file = EmptyMap
    /\ loop_i = 1
    /\ fp_cache_from_disk = EmptyMap
    /\ current_run_valid_cache_entries = EmptyMap
    /\ fingerprint_map = EmptyMap
    /\ files_needing_fingerprinting = <<>>
    /\ futures = EmptyMap
    /\ duplicates = EmptyMap
    /\ obtained = EmptyMap

\* The environment: a submitted file is deleted or moved away by someone
\* else during the fingerprinting phase ("file gone after repair attempt",
\* line 905).
FileVanishes(f) ==
    /\ run_pc = "collect"
    /\ f \in DOMAIN futures
    /\ fs[f].exists
    /\ fs' = [fs EXCEPT ![f] = NoFile]
    /\ UNCHANGED <<run_pc, args, can_fingerprint_system_ok, audio_files, loop_i, fp_cache_from_disk,
                   current_run_valid_cache_entries, fingerprint_map,
                   files_needing_fingerprinting, futures, duplicates, obtained,
                   cache_file, fs_at_start, runs>>
    /\ UNCHANGED <<varsRepair, varsQ, varsSave>>

NextBatch ==
    \/ NextRun
    \/ \E f \in RunFiles : FileVanishes(f)

\* The executor runs every task submitted to it, get_audio_fingerprint
\* ends once its tools have ended, and the loop over the futures is
\* sequential code: a step of the phase that stays possible is taken.
\* Nothing is assumed of the environment.
FairBatch ==
    /\ \A fp_path \in RunFiles : WF_vars(WorkerRun(fp_path))
    /\ WF_vars(CollectResult)
    /\ WF_vars(FinishCollecting)

SpecBatch == InitBatch /\ [][NextBatch]_vars /\ FairBatch

(***************************************************************************)
(*   ensure_unique_quarantine_filename and move_file_to_quarantine         *)
(***************************************************************************)

\* Bound of the quarantine models: the highest counter among the names a
\* quarantine directory holds before the program starts.
MaxCounter == 2

\* Bound of the move model: the number of calls of move_file_to_quarantine.
MaxCalls == 3

\* Lines 747-753: the quarantine directory, and line 973: its low-bitrate
\* subdirectory.
effective_quarantine_path == <<"/", "D">>
low_br_q_path == effective_quarantine_path \o <<"/">> \o <<"l", "o", "w", "-", "b", "i", "t", "r", "a", "t", "e">>

\* os.path.join of a directory and a relative name.
Join(dir, name) == dir \o <<"/">> \o name

\* os.path.basename
Basename(path) == Split(path)[Len(Split(path))]

\* os.path.splitext: the name is cut at its last dot, unless only dots
\* precede it.
Splitext(name) ==
    LET dots == {i \in DOMAIN name : name[i] = "."}
        last == IF dots = {} THEN 0 ELSE CHOOSE i \in dots : \A j \in dots : j <= i
    IN IF last > 0 /\ \E i \in 1..(last - 1) : name[i] # "."
       THEN <<SubSeq(name, 1, last - 1), SubSeq(name, last, Len(name))>>
       ELSE <<name, <<>>>>

\* str() of a natural number.
DecimalDigits == <<"0", "1", "2", "3", "4", "5", "6", "7", "8", "9">>

RECURSIVE Str(_)
Str(n) ==
    IF n < 10 THEN <<DecimalDigits[n + 1]>>
    ELSE Str(n \div 10) \o <<DecimalDigits[(n % 10) + 1]>>

\* os.path.exists, for an audio file of the tree or a path in quarantine.
PathExists(path) ==
    \/ path \in DOMAIN fs /\ fs[path].exists
    \/ path \in DOMAIN quarantine_files

\* Lines 131-134: the while loop, from the name and counter it has reached.
RECURSIVE UniqueFrom(_, _, _, _, _)
UniqueFrom(quarantine_dir, base, ext, dest_filename, counter) ==
    IF PathExists(Join(quarantine_dir, dest_filename))
    THEN UniqueFrom(quarantine_dir, base, ext,
                    base \o <<" ", "(">> \o Str(counter) \o <<")">> \o ext, counter + 1)
    ELSE Join(quarantine_dir, dest_filename)

\* Mutant of ensure_unique_quarantine_filename: the first name is taken
\* whether it exists or not.
ensure_unique_quarantine_filename_Unchecked(quarantine_dir, original_filename) ==
    Join(quarantine_dir, original_filename)

\* Lines 116-135.
ensure_unique_quarantine_filename(quarantine_dir, original_filename) ==
    LET base == Splitext(original_filename)[1]
        ext == Splitext(original_filename)[2]
    IN UniqueFrom(quarantine_dir, base, ext, original_filename, 1)

\* Mutant of move_file_to_quarantine: dry_run is not looked at.
move_file_to_quarantine_Undry(source_filepath, quarantine_base_dir, dry_run, raises) ==
    LET unique_dest_path ==
            ensure_unique_quarantine_filename(quarantine_base_dir, Basename(source_filepath))
    IN IF ~fs[source_filepath].exists \/ raises
       THEN [fs |-> fs, quarantine_files |-> quarantine_files, ret |-> FALSE,
             call |-> [source |-> source_filepath, dest |-> <<>>, moved |-> FALSE]]
       ELSE [fs |-> [fs EXCEPT ![source_filepath] = NoFile],
             quarantine_files |-> Put(quarantine_files, unique_dest_path, source_filepath),
             ret |-> TRUE,
             call |-> [source |-> source_filepath, dest |-> unique_dest_path,
                       moved |-> TRUE]]

\* Mutant of move_file_to_quarantine: the source is not tested.  A dry run
\* reports the move of a file that is gone; a real run creates the
\* quarantine directory before shutil.move raises.
move_file_to_quarantine_Untested(source_filepath, quarantine_base_dir, dry_run, raises) ==
    LET unique_dest_path ==
            ensure_unique_quarantine_filename(quarantine_base_dir, Basename(source_filepath))
        unmoved == [fs |-> fs, quarantine_files |-> quarantine_files]
    IN IF dry_run
       THEN unmoved @@ [ret |-> TRUE, makedirs_called |-> FALSE,
                        call |-> [source |-> source_filepath, dest |-> unique_dest_path,
                                  moved |-> FALSE]]
       ELSE IF raises \/ ~fs[source_filepath].exists
       THEN unmoved @@ [ret |-> FALSE, makedirs_called |-> TRUE,
                        call |-> [source |-> source_filepath, dest |-> <<>>, moved |-> FALSE]]
       ELSE [fs |-> [fs EXCEPT ![source_filepath] = NoFile],
             quarantine_files |-> Put(quarantine_files, unique_dest_path, source_filepath),
             ret |-> TRUE, makedirs_called |-> TRUE,
             call |-> [source |-> source_filepath, dest |-> unique_dest_path,
                       moved |-> TRUE]]

\* Lines 137-173: what one call returns and leaves behind, and whether it
\* called os.makedirs.  raises: makedirs or shutil.move raised, which a dry
\* run never calls.
move_file_to_quarantine(source_filepath, quarantine_base_dir, dry_run, raises) ==
    LET unique_dest_path ==
            ensure_unique_quarantine_filename(quarantine_base_dir, Basename(source_filepath))
        unmoved == [fs |-> fs, quarantine_files |-> quarantine_files]
    IN IF ~fs[source_filepath].exists
       THEN unmoved @@ [ret |-> FALSE, makedirs_called |-> FALSE,
                        call |-> [source |-> source_filepath, dest |-> <<>>, moved |-> FALSE]]
       ELSE IF dry_run
       THEN unmoved @@ [ret |-> TRUE, makedirs_called |-> FALSE,
                        call |-> [source |-> source_filepath, dest |-> unique_dest_path,
                                  moved |-> FALSE]]
       ELSE IF raises
       THEN unmoved @@ [ret |-> FALSE, makedirs_called |-> TRUE,
                        call |-> [source |-> source_filepath, dest |-> <<>>, moved |-> FALSE]]
       ELSE [fs |-> [fs EXCEPT ![source_filepath] = NoFile],
             quarantine_files |-> Put(quarantine_files, unique_dest_path, source_filepath),
             ret |-> TRUE, makedirs_called |-> TRUE,
             call |-> [source |-> source_filepath, dest |-> unique_dest_path,
                       moved |-> TRUE]]

\* Whether makedirs or shutil.move can raise in the call.
MoveFaults(dry_run) == IF dry_run THEN {FALSE} ELSE BOOLEAN

\* The audio files of the quarantine models: three named A.mp3 in three
\* folders, and B.mp3.
QFiles == {PathTable[1], PathTable[2], PathTable[4], PathTable[5]}

\* The names A.mp3, A (1).mp3 ... A (MaxCounter).mp3 in the quarantine
\* directory, left there by earlier runs.
EarlierNames ==
    {Join(effective_quarantine_path, <<"A">> \o <<".", "m", "p", "3">>)} \cup
    {Join(effective_quarantine_path,
          <<"A", " ", "(">> \o Str(k) \o <<")", ".", "m", "p", "3">>) : k \in 1..MaxCounter}

\* move_file_to_quarantine on its own: any files already in quarantine, any
\* sequence of calls, real or dry.
InitMove ==
    /\ RepairIdle
    /\ SaveIdle
    /\ run_pc = "moving"
    /\ can_fingerprint_system_ok = TRUE
    /\ \E dry_run \in BOOLEAN :
          args = [force_re_fingerprint |-> FALSE, dry_run |-> dry_run,
                  skip_low_bitrate |-> FALSE,
                  skip_duplicates |-> FALSE]
    /\ fs = [p \in QFiles |-> [exists |-> TRUE, mtime |-> 1, size |-> 2]]
    /\ fs_at_start = fs
    /\ runs = 1
    /\ \E stored \in SUBSET EarlierNames : quarantine_files = [p \in stored |-> "earlier"]
    /\ at_session_start = [fs |-> fs, entries |-> EmptyMap,
                           quarantine_files |-> quarantine_files]
    /\ audio_files = <<>>
    /\ loop_i = 1
    /\ fp_cache_from_disk = EmptyMap
    /\ current_run_valid_cache_entries = EmptyMap
    /\ fingerprint_map = EmptyMap
    /\ files_needing_fingerprinting = <<>>
    /\ futures = EmptyMap
    /\ duplicates = EmptyMap
    /\ obtained = EmptyMap
    /\ cache_file = EmptyMap
    /\ sorted_duplicate_sets = <<>>
    /\ loop_j = 1
    /\ remove_all_mode = FALSE
    /\ quit_mode = FALSE
    /\ files_quarantined_count = 0
    /\ response_check_low_br_for_save_logic = "n"
    /\ low_bitrate_files_initially_detected = <<>>
    /\ low_bitrate_files_to_prompt = <<>>
    /\ all_mode_lb = FALSE
    /\ quit_mode_lb = FALSE
    /\ quarantined_lb_count = 0
    /\ inputs_read = 0
    /\ answers = <<>>
    /\ move_calls = <<>>
    /\ twin = [mode |-> "off"]

\* One call of move_file_to_quarantine (lines 137-173).
MoveCall(source_filepath) ==
    /\ run_pc = "moving"
    /\ Len(move_calls) < MaxCalls
    /\ \E raises \in MoveFaults(args.dry_run) :
          LET out == move_file_to_quarantine(source_filepath, effective_quarantine_path,
                                             args.dry_run, raises)
          IN /\ fs' = out.fs
             /\ quarantine_files' = out.quarantine_files
             /\ move_calls' = Append(move_calls, out.call)
             /\ files_quarantined_count' = files_quarantined_count + (IF out.ret THEN 1 ELSE 0)
    /\ UNCHANGED <<run_pc, args, can_fingerprint_system_ok, audio_files, loop_i, fp_cache_from_disk,
                   current_run_valid_cache_entries, fingerprint_map,
                   files_needing_fingerprinting, futures, duplicates, obtained,
                   cache_file, fs_at_start, runs>>
    /\ UNCHANGED <<sorted_duplicate_sets, loop_j, remove_all_mode, quit_mode,
                   response_check_low_br_for_save_logic,
                   low_bitrate_files_initially_detected, low_bitrate_files_to_prompt,
                   all_mode_lb, quit_mode_lb, quarantined_lb_count, inputs_read, answers,
                   at_session_start>>
    /\ UNCHANGED twin
    /\ UNCHANGED <<varsRepair, varsSave>>

NextMove == \E source_filepath \in QFiles : MoveCall(source_filepath)

SpecMove == InitMove /\ [][NextMove]_vars

(***************************************************************************)
(*  prompt_to_remove_duplicates and the low bitrate flow of main           *)
(***************************************************************************)

\* Bound of the session model: the number of files check_bitrate reports.
MaxCandidates == 2

\* What the user can type at a y/n/a/q prompt: the four answers and
\* anything else, "x".
Responses == {"y", "n", "a", "q", "x"}

\* input(): the user types any of the answers; in a run repeated on the
\* answers of the run before, the next of those.
input(choices) ==
    IF twin.mode = "replay" THEN {twin.script[twin.cursor]} ELSE choices

\* The standard input once the answer is read ("auto": nothing was read).
AfterInput(response) ==
    IF response = "auto" \/ twin.mode = "off" THEN twin
    ELSE IF twin.mode = "record" THEN [twin EXCEPT !.script = Append(@, response)]
    ELSE [twin EXCEPT !.cursor = @ + 1]

\* Mutant of PromptResponses: the prompt is shown in yes-to-all mode too.
PromptResponses_Always(all_mode) == Responses

\* Lines 436-441 and 1012-1014: in yes-to-all mode no input is read and the
\* file is taken as answered, "auto"; otherwise the user answers.
PromptResponses(all_mode) == IF all_mode THEN {"auto"} ELSE input(Responses)

\* Mutant of ShouldQuarantine: every answer but n and q quarantines.
ShouldQuarantine_UnlessNo(user_response) == user_response \notin {"n", "q"}

\* Lines 437, 444, 447 and 1012, 1016, 1022: the answers that quarantine.
ShouldQuarantine(user_response) == user_response \in {"auto", "y", "a"}

\* Mutant of LoopHalted: quit does not stop the loops.
LoopHalted_Never(quit) == FALSE

\* Lines 408, 422 and 1008: the loops stop once quit is set.
LoopHalted(quit) == quit

\* sorted() of a set of paths.
\* Mutant of SortedPaths: descending order.
RECURSIVE SortedPaths_Descending(_)
SortedPaths_Descending(S) ==
    IF S = {} THEN <<>>
    ELSE LET greatest == CHOOSE p \in S : \A q \in S \ {p} : StrLess(q, p)
         IN <<greatest>> \o SortedPaths_Descending(S \ {greatest})

RECURSIVE SortedPaths(_)
SortedPaths(S) ==
    IF S = {} THEN <<>>
    ELSE LET least == CHOOSE p \in S : \A q \in S \ {p} : StrLess(p, q)
         IN <<least>> \o SortedPaths(S \ {least})

\* The two fingerprint groups of the session model.
QKeys == {<< <<171>>, 2 >>, << <<205>>, 4 >>}

\* The working cache entry of a file fingerprinted under the group key.
QEntry(key) ==
    [mtime |-> 1, size |-> 2, fingerprint_hex |-> Hex(key[1]), duration |-> 2 * key[2]]

\* The session model starts where the fingerprints are merged: every
\* fingerprinted file in one of the two groups, each group in the order of
\* the walk; at most one file with the ignore flag of an earlier run, either
\* unchanged since, or without fingerprint and left rewritten by the repair
\* of this run; a real or a dry run.
InitQ ==
    /\ RepairIdle
    /\ SaveIdle
    /\ run_pc = "identify"
    /\ can_fingerprint_system_ok = TRUE
    /\ \E dry_run \in BOOLEAN :
          args = [force_re_fingerprint |-> FALSE, dry_run |-> dry_run,
                  skip_low_bitrate |-> FALSE,
                  skip_duplicates |-> FALSE]
    /\ audio_files = <<PathTable[1], PathTable[2], PathTable[4], PathTable[5]>>
    /\ \E ignored \in {S \in SUBSET QFiles : Cardinality(S) <= 1},
          rewritten \in {S \in SUBSET QFiles : Cardinality(S) <= 1} :
          /\ rewritten \subseteq ignored
          /\ \E key \in [QFiles \ rewritten -> QKeys] :
                /\ fingerprint_map =
                      [k \in {key[f] : f \in DOMAIN key} |->
                          SelectSeq(audio_files,
                                    LAMBDA f : f \in DOMAIN key /\ key[f] = k)]
                /\ current_run_valid_cache_entries =
                      [p \in QFiles |->
                          IF p \in rewritten
                          THEN [mtime |-> 1, size |-> 2, low_bitrate_ignored |-> TRUE]
                          ELSE IF p \in ignored
                               THEN Update(QEntry(key[p]), [low_bitrate_ignored |-> TRUE])
                               ELSE QEntry(key[p])]
          /\ fs = [p \in QFiles |->
                      IF p \in rewritten THEN [exists |-> TRUE, mtime |-> 2, size |-> 3]
                                         ELSE [exists |-> TRUE, mtime |-> 1, size |-> 2]]
    /\ fs_at_start = fs
    /\ runs = 1
    /\ cache_file = EmptyMap
    /\ loop_i = 1
    /\ fp_cache_from_disk = EmptyMap
    /\ files_needing_fingerprinting = <<>>
    /\ futures = EmptyMap
    /\ duplicates = EmptyMap
    /\ obtained = EmptyMap
    /\ QIdle

\* Lines 932-405: main calls prompt_to_remove_duplicates when there are
\* duplicates; the function sorts the sets by canonical file.
StartDuplicateSession ==
    /\ run_pc = "identified"
    /\ run_pc' = IF duplicates = EmptyMap THEN "low_bitrate_ask" ELSE "dup_prompt"
    /\ sorted_duplicate_sets' =
          LET canonicals == SortedPaths(DOMAIN duplicates)
          IN [i \in DOMAIN canonicals |-> <<canonicals[i], duplicates[canonicals[i]]>>]
    /\ loop_i' = 1
    /\ loop_j' = 1
    /\ remove_all_mode' = FALSE
    /\ quit_mode' = FALSE
    /\ files_quarantined_count' = 0
    /\ at_session_start' = [fs |-> fs, entries |-> current_run_valid_cache_entries,
                            quarantine_files |-> quarantine_files]
    /\ UNCHANGED <<args, can_fingerprint_system_ok, fs, audio_files, fp_cache_from_disk,
                   current_run_valid_cache_entries, fingerprint_map,
                   files_needing_fingerprinting, futures, duplicates, obtained,
                   cache_file, fs_at_start, runs>>
    /\ inputs_read' = 0
    /\ answers' = <<>>
    /\ move_calls' = <<>>
    /\ UNCHANGED <<quarantine_files, response_check_low_br_for_save_logic,
                   low_bitrate_files_initially_detected, low_bitrate_files_to_prompt,
                   all_mode_lb, quit_mode_lb, quarantined_lb_count>>
    /\ UNCHANGED twin
    /\ UNCHANGED <<varsRepair, varsSave>>

\* Lines 421-465, one iteration of the inner loop: a duplicate that is gone
\* is passed over; else the answer is read unless yes-to-all is on, and the
\* file is moved on y and a; q sets quit_mode and leaves the loop.
VisitDuplicate ==
    /\ run_pc = "dup_prompt"
    /\ ~LoopHalted(quit_mode)
    /\ loop_i <= Len(sorted_duplicate_sets)
    /\ loop_j <= Len(sorted_duplicate_sets[loop_i][2])
    /\ LET file_to_quarantine == sorted_duplicate_sets[loop_i][2][loop_j]
       IN IF ~fs[file_to_quarantine].exists
          THEN /\ loop_j' = loop_j + 1
               /\ UNCHANGED <<fs, quarantine_files, move_calls, files_quarantined_count,
                              inputs_read, answers, remove_all_mode, quit_mode, twin>>
          ELSE \E user_response \in PromptResponses(remove_all_mode) :
                  /\ inputs_read' = inputs_read + (IF user_response = "auto" THEN 0 ELSE 1)
                  /\ answers' = Put(answers, file_to_quarantine, user_response)
                  /\ twin' = AfterInput(user_response)
                  /\ remove_all_mode' = (remove_all_mode \/ user_response = "a")
                  /\ quit_mode' = (quit_mode \/ user_response = "q")
                  /\ loop_j' = IF user_response = "q" THEN loop_j ELSE loop_j + 1
                  /\ IF ShouldQuarantine(user_response)
                     THEN \E raises \in MoveFaults(args.dry_run) :
                             LET out == move_file_to_quarantine(
                                            file_to_quarantine, effective_quarantine_path,
                                            args.dry_run, raises)
                             IN /\ fs' = out.fs
                                /\ quarantine_files' = out.quarantine_files
                                /\ move_calls' = Append(move_calls, out.call)
                                /\ files_quarantined_count' =
                                      files_quarantined_count + (IF out.ret THEN 1 ELSE 0)
                     ELSE UNCHANGED <<fs, quarantine_files, move_calls,
                                      files_quarantined_count>>
    /\ UNCHANGED <<run_pc, args, can_fingerprint_system_ok, audio_files, loop_i, fp_cache_from_disk,
                   current_run_valid_cache_entries, fingerprint_map,
                   files_needing_fingerprinting, futures, duplicates, obtained,
                   cache_file, fs_at_start, runs>>
    /\ UNCHANGED <<sorted_duplicate_sets, response_check_low_br_for_save_logic,
                   low_bitrate_files_initially_detected, low_bitrate_files_to_prompt,
                   all_mode_lb, quit_mode_lb, quarantined_lb_count, at_session_start>>
    /\ UNCHANGED <<varsRepair, varsSave>>

\* Lines 407-421: the inner loop is through, the outer loop takes the next
\* duplicate set.
NextDuplicateSet ==
    /\ run_pc = "dup_prompt"
    /\ ~LoopHalted(quit_mode)
    /\ loop_i <= Len(sorted_duplicate_sets)
    /\ loop_j > Len(sorted_duplicate_sets[loop_i][2])
    /\ loop_i' = loop_i + 1
    /\ loop_j' = 1
    /\ UNCHANGED <<run_pc, args, can_fingerprint_system_ok, fs, audio_files, fp_cache_from_disk,
                   current_run_valid_cache_entries, fingerprint_map,
                   files_needing_fingerprinting, futures, duplicates, obtained,
                   cache_file, fs_at_start, runs>>
    /\ UNCHANGED <<quarantine_files, sorted_duplicate_sets, remove_all_mode, quit_mode,
                   files_quarantined_count, response_check_low_br_for_save_logic,
                   low_bitrate_files_initially_detected, low_bitrate_files_to_prompt,
                   all_mode_lb, quit_mode_lb, quarantined_lb_count, inputs_read, answers,
                   move_calls, at_session_start>>
    /\ UNCHANGED twin
    /\ UNCHANGED <<varsRepair, varsSave>>

\* Lines 408-409 and 467-480: the outer loop ends, by quit or with the last
\* set, and the function returns: its local variables are gone.
EndDuplicateSession ==
    /\ run_pc = "dup_prompt"
    /\ LoopHalted(quit_mode) \/ loop_i > Len(sorted_duplicate_sets)
    /\ run_pc' = "low_bitrate_ask"
    /\ sorted_duplicate_sets' = <<>>
    /\ loop_i' = 1
    /\ loop_j' = 1
    /\ remove_all_mode' = FALSE
    /\ quit_mode' = FALSE
    /\ files_quarantined_count' = 0
    /\ UNCHANGED <<args, can_fingerprint_system_ok, fs, audio_files, fp_cache_from_disk,
                   current_run_valid_cache_entries, fingerprint_map,
                   files_needing_fingerprinting, futures, duplicates, obtained,
                   cache_file, fs_at_start, runs>>
    /\ UNCHANGED <<quarantine_files, response_check_low_br_for_save_logic,
                   low_bitrate_files_initially_detected, low_bitrate_files_to_prompt,
                   all_mode_lb, quit_mode_lb, quarantined_lb_count, inputs_read, answers,
                   move_calls, at_session_start>>
    /\ twin' = IF twin.mode = "off" THEN twin
                ELSE [twin EXCEPT !.files_quarantined_count = files_quarantined_count]
    /\ UNCHANGED <<varsRepair, varsSave>>

\* The subsequences of the walk with at most n files.
Detections(walk, n) ==
    {SelectSeq(walk, LAMBDA f : f \in S) :
        S \in {T \in SUBSET Range(walk) : Cardinality(T) <= n}}

\* Lines 958-968: the files check_bitrate reports, in the order of the
\* walk: any of them, at most MaxCandidates; in a repeated run those it
\* reported before, as far as they are still there.
BitrateCheck(files_for_br_check) ==
    IF twin.mode = "replay"
    THEN {SelectSeq(twin.low_bitrate, LAMBDA f : f \in Range(files_for_br_check))}
    ELSE Detections(files_for_br_check, MaxCandidates)

AfterBitrateCheck(stdin, detected) ==
    IF stdin.mode = "record" THEN [stdin EXCEPT !.low_bitrate = detected] ELSE stdin

\* Lines 945-971: unless --skip-low-bitrate, the user is asked whether to
\* scan; on y check_bitrate runs on every file still there and reports any
\* of them.
AskLowBitrate ==
    /\ run_pc = "low_bitrate_ask"
    /\ IF args.skip_low_bitrate
       THEN /\ run_pc' = "save"
            /\ UNCHANGED <<response_check_low_br_for_save_logic,
                           low_bitrate_files_initially_detected, twin>>
       ELSE \E response_check_low_br \in input({"y", "n"}) :
               /\ response_check_low_br_for_save_logic' = response_check_low_br
               /\ IF response_check_low_br = "y"
                  THEN /\ low_bitrate_files_initially_detected' \in
                             BitrateCheck(SelectSeq(audio_files, LAMBDA f : fs[f].exists))
                       /\ run_pc' = IF low_bitrate_files_initially_detected' = <<>>
                                    THEN "save" ELSE "filter"
                       /\ twin' = AfterBitrateCheck(AfterInput(response_check_low_br),
                                                    low_bitrate_files_initially_detected')
                  ELSE /\ run_pc' = "save"
                       /\ twin' = AfterInput(response_check_low_br)
                       /\ UNCHANGED low_bitrate_files_initially_detected
    /\ at_session_start' = [fs |-> fs, entries |-> current_run_valid_cache_entries,
                            quarantine_files |-> quarantine_files]
    /\ inputs_read' = 0
    /\ answers' = <<>>
    /\ move_calls' = <<>>
    /\ loop_i' = 1
    /\ low_bitrate_files_to_prompt' = <<>>
    /\ UNCHANGED <<args, can_fingerprint_system_ok, fs, audio_files, fp_cache_from_disk,
                   current_run_valid_cache_entries, fingerprint_map,
                   files_needing_fingerprinting, futures, duplicates, obtained,
                   cache_file, fs_at_start, runs>>
    /\ UNCHANGED <<quarantine_files, sorted_duplicate_sets, loop_j, remove_all_mode,
                   quit_mode, files_quarantined_count, all_mode_lb, quit_mode_lb,
                   quarantined_lb_count>>
    /\ UNCHANGED <<varsRepair, varsSave>>

\* Mutant of PreviouslyIgnoredUnchanged: the ignore flag is not looked at.
PreviouslyIgnoredUnchanged_Never(cached_entry_lb, current_mtime_lb, current_size_lb) ==
    FALSE

\* Lines 985-988: the file was ignored before and has not changed since.
PreviouslyIgnoredUnchanged(cached_entry_lb, current_mtime_lb, current_size_lb) ==
    /\ cached_entry_lb # <<>>
    /\ "mtime" \in DOMAIN cached_entry_lb /\ cached_entry_lb.mtime = current_mtime_lb
    /\ "size" \in DOMAIN cached_entry_lb /\ cached_entry_lb.size = current_size_lb
    /\ "low_bitrate_ignored" \in DOMAIN cached_entry_lb
    /\ cached_entry_lb.low_bitrate_ignored = TRUE

\* Lines 976-996, one iteration: a reported file is left out when it was
\* ignored before and is unchanged; any other goes to the prompt list, and
\* its entry gets the file's mtime and size and the ignore flag False.
FilterIgnored ==
    /\ run_pc = "filter"
    /\ loop_i <= Len(low_bitrate_files_initially_detected)
    /\ LET abs_filepath_lb == low_bitrate_files_initially_detected[loop_i]
           current_mtime_lb == fs[abs_filepath_lb].mtime
           current_size_lb == fs[abs_filepath_lb].size
           cached_entry_lb == IF abs_filepath_lb \in DOMAIN current_run_valid_cache_entries
                              THEN current_run_valid_cache_entries[abs_filepath_lb]
                              ELSE <<>>
       IN IF \/ ~fs[abs_filepath_lb].exists
             \/ PreviouslyIgnoredUnchanged(cached_entry_lb, current_mtime_lb,
                                           current_size_lb)
          THEN UNCHANGED <<low_bitrate_files_to_prompt, current_run_valid_cache_entries>>
          ELSE /\ low_bitrate_files_to_prompt' =
                     Append(low_bitrate_files_to_prompt, abs_filepath_lb)
               /\ current_run_valid_cache_entries' =
                     Put(current_run_valid_cache_entries, abs_filepath_lb,
                         Update(cached_entry_lb,
                                [mtime |-> current_mtime_lb, size |-> current_size_lb,
                                 low_bitrate_ignored |-> FALSE]))
    /\ loop_i' = loop_i + 1
    /\ UNCHANGED <<run_pc, args, can_fingerprint_system_ok, fs, audio_files, fp_cache_from_disk, fingerprint_map,
                   files_needing_fingerprinting, futures, duplicates, obtained,
                   cache_file, fs_at_start, runs>>
    /\ UNCHANGED <<quarantine_files, sorted_duplicate_sets, loop_j, remove_all_mode,
                   quit_mode, files_quarantined_count,
                   response_check_low_br_for_save_logic,
                   low_bitrate_files_initially_detected, all_mode_lb, quit_mode_lb,
                   quarantined_lb_count, inputs_read, answers, move_calls, at_session_start>>
    /\ UNCHANGED twin
    /\ UNCHANGED <<varsRepair, varsSave>>

\* Lines 998-1004: the filter is through; with files to prompt the prompt
\* loop begins.
StartLowBitrateSession ==
    /\ run_pc = "filter"
    /\ loop_i > Len(low_bitrate_files_initially_detected)
    /\ run_pc' = IF low_bitrate_files_to_prompt = <<>> THEN "save" ELSE "lb_prompt"
    /\ loop_i' = 1
    /\ all_mode_lb' = FALSE
    /\ quit_mode_lb' = FALSE
    /\ quarantined_lb_count' = 0
    /\ UNCHANGED <<args, can_fingerprint_system_ok, fs, audio_files, fp_cache_from_disk,
                   current_run_valid_cache_entries, fingerprint_map,
                   files_needing_fingerprinting, futures, duplicates, obtained,
                   cache_file, fs_at_start, runs>>
    /\ UNCHANGED <<quarantine_files, sorted_duplicate_sets, loop_j, remove_all_mode,
                   quit_mode, files_quarantined_count,
                   response_check_low_br_for_save_logic,
                   low_bitrate_files_initially_detected, low_bitrate_files_to_prompt,
                   inputs_read, answers, move_calls, at_session_start>>
    /\ UNCHANGED twin
    /\ UNCHANGED <<varsRepair, varsSave>>

\* Mutant of EntryAfterAnswer: every answer that touches the entry sets the
\* ignore flag.
EntryAfterAnswer_Marks(entry, resp_lb, file) ==
    Update(entry, [low_bitrate_ignored |-> TRUE, mtime |-> file.mtime, size |-> file.size])

\* Lines 1016-1033: what the answer does to the entry of the file: y and a
\* clear the ignore flag, n sets it, each with the file's mtime and size;
\* q, any other answer and yes-to-all mode leave the entry alone.
EntryAfterAnswer(entry, resp_lb, file) ==
    IF resp_lb \in {"y", "a"}
    THEN Update(entry, [low_bitrate_ignored |-> FALSE, mtime |-> file.mtime,
                        size |-> file.size])
    ELSE IF resp_lb = "n"
         THEN Update(entry, [low_bitrate_ignored |-> TRUE, mtime |-> file.mtime,
                             size |-> file.size])
         ELSE entry

\* Lines 1007-1037, one iteration of the prompt loop.
VisitLowBitrate ==
    /\ run_pc = "lb_prompt"
    /\ ~LoopHalted(quit_mode_lb)
    /\ loop_i <= Len(low_bitrate_files_to_prompt)
    /\ LET fp_lb_prompt_path == low_bitrate_files_to_prompt[loop_i]
           entry == IF fp_lb_prompt_path \in DOMAIN current_run_valid_cache_entries
                    THEN current_run_valid_cache_entries[fp_lb_prompt_path] ELSE <<>>
       IN IF ~fs[fp_lb_prompt_path].exists
          THEN /\ loop_i' = loop_i + 1
               /\ UNCHANGED <<fs, quarantine_files, move_calls, quarantined_lb_count,
                              inputs_read, answers, all_mode_lb, quit_mode_lb,
                              current_run_valid_cache_entries, twin>>
          ELSE \E resp_lb \in PromptResponses(all_mode_lb) :
                  /\ inputs_read' = inputs_read + (IF resp_lb = "auto" THEN 0 ELSE 1)
                  /\ answers' = Put(answers, fp_lb_prompt_path, resp_lb)
                  /\ twin' = AfterInput(resp_lb)
                  /\ all_mode_lb' = (all_mode_lb \/ resp_lb = "a")
                  /\ quit_mode_lb' = (quit_mode_lb \/ resp_lb = "q")
                  /\ loop_i' = IF resp_lb = "q" THEN loop_i ELSE loop_i + 1
                  /\ current_run_valid_cache_entries' =
                        IF resp_lb \in {"y", "a", "n"}
                        THEN Put(current_run_valid_cache_entries, fp_lb_prompt_path,
                                 EntryAfterAnswer(entry, resp_lb, fs[fp_lb_prompt_path]))
                        ELSE current_run_valid_cache_entries
                  /\ IF ShouldQuarantine(resp_lb)
                     THEN \E raises \in MoveFaults(args.dry_run) :
                             LET out == move_file_to_quarantine(
                                            fp_lb_prompt_path, low_br_q_path,
                                            args.dry_run, raises)
                             IN /\ fs' = out.fs
                                /\ quarantine_files' = out.quarantine_files
                                /\ move_calls' = Append(move_calls, out.call)
                                /\ quarantined_lb_count' =
                                      quarantined_lb_count + (IF out.ret THEN 1 ELSE 0)
                     ELSE UNCHANGED <<fs, quarantine_files, move_calls,
                                      quarantined_lb_count>>
    /\ UNCHANGED <<run_pc, args, can_fingerprint_system_ok, audio_files, fp_cache_from_disk, fingerprint_map,
                   files_needing_fingerprinting, futures, duplicates, obtained,
                   cache_file, fs_at_start, runs>>
    /\ UNCHANGED <<sorted_duplicate_sets, loop_j, remove_all_mode, quit_mode,
                   files_quarantined_count, response_check_low_br_for_save_logic,
                   low_bitrate_files_initially_detected, low_bitrate_files_to_prompt,
                   at_session_start>>
    /\ UNCHANGED <<varsRepair, varsSave>>

\* Lines 1008 and 1039-1047: the prompt loop ends, by quit or with the last
\* file.
EndLowBitrateSession ==
    /\ run_pc = "lb_prompt"
    /\ LoopHalted(quit_mode_lb) \/ loop_i > Len(low_bitrate_files_to_prompt)
    /\ run_pc' = "save"
    /\ UNCHANGED <<args, can_fingerprint_system_ok, fs, audio_files, loop_i, fp_cache_from_disk,
                   current_run_valid_cache_entries, fingerprint_map,
                   files_needing_fingerprinting, futures, duplicates, obtained,
                   cache_file, fs_at_start, runs>>
    /\ UNCHANGED varsQ
    /\ UNCHANGED <<varsRepair, varsSave>>

\* Lines 1101-1107: an entry that lacks mtime or size gets those of the
\* file.
WithStat(fp_abs_save, data_save) ==
    IF "mtime" \notin DOMAIN data_save \/ "size" \notin DOMAIN data_save
    THEN Update(data_save, [mtime |-> fs[fp_abs_save].mtime, size |-> fs[fp_abs_save].size])
    ELSE data_save

\* Mutant of final_cache_to_save: nothing is pruned.
final_cache_to_save_Unpruned == current_run_valid_cache_entries

\* Lines 1095-1112: the entries of the files still at their path.
final_cache_to_save ==
    [p \in {q \in DOMAIN current_run_valid_cache_entries : fs[q].exists} |->
        WithStat(p, current_run_valid_cache_entries[p])]

\* Lines 93-114: save_fingerprint_cache replaces the cache file, or fails
\* to write and leaves it as it was.
WriteOutcomes(cache_data) == {cache_data, cache_file}

\* Lines 840-845: with --skip-duplicates, or without fpcalc, main goes from
\* the validation loop straight to the low bitrate check; duplicates stays
\* empty.
SkipDuplicateDetection ==
    /\ run_pc = "validate"
    /\ loop_i > Len(audio_files)
    /\ ~did_fingerprint_stage_run_attempted
    /\ run_pc' = "low_bitrate_ask"
    /\ loop_i' = 1
    /\ UNCHANGED <<args, can_fingerprint_system_ok, fs, audio_files, fp_cache_from_disk,
                   current_run_valid_cache_entries, fingerprint_map,
                   files_needing_fingerprinting, futures, duplicates, obtained,
                   cache_file, fs_at_start, runs>>
    /\ UNCHANGED varsQ
    /\ UNCHANGED <<varsRepair, varsSave>>

\* Mutant of did_low_bitrate_scan_run_attempted: being asked counts as a
\* scan, whatever the answer.
did_low_bitrate_scan_run_attempted_Asked == ~args.skip_low_bitrate

\* Line 1114: the low bitrate scan ran when it was not skipped and the user
\* answered y to the question whether to scan.
did_low_bitrate_scan_run_attempted ==
    ~args.skip_low_bitrate /\ response_check_low_br_for_save_logic = "y"

\* Line 1116: the condition under which main saves the cache at all.
SaveIsDue ==
    \/ args.force_re_fingerprint
    \/ did_fingerprint_stage_run_attempted
    \/ did_low_bitrate_scan_run_attempted

\* Lines 1095-1127: the entries of the files still at their path are saved
\* when a cache-relevant stage ran and there is an entry to save.
SaveCache ==
    /\ run_pc = "save"
    /\ IF SaveIsDue /\ final_cache_to_save # EmptyMap
       THEN cache_file' \in WriteOutcomes(final_cache_to_save)
       ELSE cache_file' = cache_file
    /\ run_pc' = "finished"
    /\ UNCHANGED <<args, can_fingerprint_system_ok, fs, audio_files, loop_i, fp_cache_from_disk,
                   current_run_valid_cache_entries, fingerprint_map,
                   files_needing_fingerprinting, futures, duplicates, obtained,
                   fs_at_start, runs>>
    /\ UNCHANGED varsQ
    /\ UNCHANGED <<varsRepair, varsSave>>

NextQ ==
    \/ IdentifyDuplicates
    \/ StartDuplicateSession
    \/ VisitDuplicate
    \/ NextDuplicateSet
    \/ EndDuplicateSession
    \/ AskLowBitrate
    \/ FilterIgnored
    \/ StartLowBitrateSession
    \/ VisitLowBitrate
    \/ EndLowBitrateSession
    \/ SaveCache

SpecQ == InitQ /\ [][NextQ]_vars

(***************************************************************************)
(*        main from the walk to the saved cache, run after run             *)
(***************************************************************************)

\* Bound of the repeated-run model: the invocations of main.
MaxRuns == 2

\* The locals of the quarantine sessions as a new invocation finds them.
SessionLocalsReset ==
    /\ sorted_duplicate_sets' = <<>>
    /\ loop_j' = 1
    /\ remove_all_mode' = FALSE
    /\ quit_mode' = FALSE
    /\ files_quarantined_count' = 0
    /\ response_check_low_br_for_save_logic' = "n"
    /\ low_bitrate_files_initially_detected' = <<>>
    /\ low_bitrate_files_to_prompt' = <<>>
    /\ all_mode_lb' = FALSE
    /\ quit_mode_lb' = FALSE
    /\ quarantined_lb_count' = 0
    /\ inputs_read' = 0
    /\ answers' = <<>>
    /\ move_calls' = <<>>
    /\ at_session_start' = <<>>
    /\ twin' = twin

\* The first invocation in a directory of one audio file, none in
\* quarantine, with no cache file or any cache file; with or without
\* --force-re-fingerprint and --dry-run.
InitAgain ==
    /\ RepairIdle
    /\ SaveIdle
    /\ QIdle
    /\ run_pc = "load_cache"
    /\ can_fingerprint_system_ok = TRUE
    /\ \E force \in BOOLEAN, dry_run \in BOOLEAN :
          args = [force_re_fingerprint |-> force, dry_run |-> dry_run,
                  skip_low_bitrate |-> FALSE,
                  skip_duplicates |-> FALSE]
    /\ audio_files = <<PathTable[1]>>
    /\ fs = [p \in Range(audio_files) |-> [exists |-> TRUE, mtime |-> 1, size |-> 2]]
    /\ fs_at_start = fs
    /\ runs = 1
    /\ cache_file \in {EmptyMap} \cup
                      {(audio_files[1] :> e) : e \in CacheEntriesFor(fs[audio_files[1]])}
    /\ loop_i = 1
    /\ fp_cache_from_disk = EmptyMap
    /\ current_run_valid_cache_entries = EmptyMap
    /\ fingerprint_map = EmptyMap
    /\ files_needing_fingerprinting = <<>>
    /\ futures = EmptyMap
    /\ duplicates = EmptyMap
    /\ obtained = EmptyMap

\* Lines 783-816: main is started again in the same directory, the files and
\* the cache file as the run before left them.  The walk finds the files
\* still in the tree (lines 783-803); with none the program exits (line 805).
StartNextRun ==
    /\ run_pc = "finished"
    /\ runs < MaxRuns
    /\ runs' = runs + 1
    /\ UNCHANGED can_fingerprint_system_ok
    /\ \E force \in BOOLEAN, dry_run \in BOOLEAN :
          args' = [force_re_fingerprint |-> force, dry_run |-> dry_run,
                   skip_low_bitrate |-> FALSE,
                   skip_duplicates |-> FALSE]
    /\ audio_files' = SelectSeq(audio_files, LAMBDA f : fs[f].exists)
    /\ run_pc' = IF audio_files' = <<>> THEN "finished" ELSE "load_cache"
    /\ loop_i' = 1
    /\ fp_cache_from_disk' = EmptyMap
    /\ current_run_valid_cache_entries' = EmptyMap
    /\ fingerprint_map' = EmptyMap
    /\ files_needing_fingerprinting' = <<>>
    /\ futures' = EmptyMap
    /\ duplicates' = EmptyMap
    /\ obtained' = EmptyMap
    /\ fs_at_start' = fs
    /\ SessionLocalsReset
    /\ UNCHANGED <<fs, cache_file, quarantine_files>>
    /\ UNCHANGED <<varsRepair, varsSave>>

\* With one file there is no duplicate set, and prompt_to_remove_duplicates
\* is not called (line 932).
NextAgain ==
    \/ LoadCache
    \/ ValidateCacheState
    \/ StartPreparing
    \/ PrepareForFingerprinting
    \/ SubmitAll
    \/ \E fp_path \in RunFiles : WorkerRun(fp_path)
    \/ CollectResult
    \/ FinishCollecting
    \/ IdentifyDuplicates
    \/ StartDuplicateSession
    \/ AskLowBitrate
    \/ FilterIgnored
    \/ StartLowBitrateSession
    \/ VisitLowBitrate
    \/ EndLowBitrateSession
    \/ SaveCache
    \/ StartNextRun

SpecAgain == InitAgain /\ [][NextAgain]_vars

(***************************************************************************)
(*     main, one run from the cache load to the final save, among files    *)
(*     that are gone when the validation loop stats them                   *)
(***************************************************************************)

\* The files the walk found.
MainFiles == {PathTable[1], PathTable[2], PathTable[3]}

\* The walk found three files; any of them is gone again when the
\* validation loop comes to it.  The cache file holds the first two as an
\* earlier run fingerprinted them, the same recording, and nothing of the
\* third.
InitMain ==
    /\ RepairIdle
    /\ SaveIdle
    /\ QIdle
    /\ run_pc = "load_cache"
    /\ can_fingerprint_system_ok = TRUE
    /\ \E dry_run \in BOOLEAN :
          args = [force_re_fingerprint |-> FALSE, dry_run |-> dry_run,
                  skip_low_bitrate |-> FALSE,
                  skip_duplicates |-> FALSE]
    /\ audio_files = <<PathTable[1], PathTable[2], PathTable[3]>>
    /\ fs \in [MainFiles -> FileStates({1}, {2})]
    /\ fs_at_start = fs
    /\ runs = 1
    /\ cache_file = [p \in {PathTable[1], PathTable[2]} |->
                        [mtime |-> 1, size |-> 2, fingerprint_hex |-> Hex(<<171>>),
                         duration |-> 4]]
    /\ loop_i = 1
    /\ fp_cache_from_disk = EmptyMap
    /\ current_run_valid_cache_entries = EmptyMap
    /\ fingerprint_map = EmptyMap
    /\ files_needing_fingerprinting = <<>>
    /\ futures = EmptyMap
    /\ duplicates = EmptyMap
    /\ obtained = EmptyMap

\* The environment: a file that was gone when the validation loop looked
\* for it (lines 821-836) is at its path again later in the run, put back
\* by whoever had taken it away; the loops after the validation test
\* os.path.exists anew (lines 853, 959, 981).
FileReturns(f) ==
    /\ run_pc \notin {"load_cache", "validate", "finished", "raised"}
    /\ ~fs_at_start[f].exists
    /\ ~fs[f].exists
    /\ fs' = [fs EXCEPT ![f] = [exists |-> TRUE, mtime |-> 1, size |-> 2]]
    /\ UNCHANGED <<run_pc, args, can_fingerprint_system_ok, audio_files, loop_i, fp_cache_from_disk,
                   current_run_valid_cache_entries, fingerprint_map,
                   files_needing_fingerprinting, futures, duplicates, obtained,
                   cache_file, fs_at_start, runs>>
    /\ UNCHANGED <<varsRepair, varsQ, varsSave>>

NextMain ==
    \/ LoadCache
    \/ ValidateCacheState
    \/ StartPreparing
    \/ PrepareForFingerprinting
    \/ SubmitAll
    \/ \E fp_path \in DOMAIN futures : WorkerRun(fp_path)
    \/ CollectResult
    \/ FinishCollecting
    \/ IdentifyDuplicates
    \/ StartDuplicateSession
    \/ VisitDuplicate
    \/ NextDuplicateSet
    \/ EndDuplicateSession
    \/ AskLowBitrate
    \/ FilterIgnored
    \/ StartLowBitrateSession
    \/ VisitLowBitrate
    \/ EndLowBitrateSession
    \/ SaveCache
    \/ \E f \in MainFiles : FileReturns(f)

SpecMain == InitMain /\ [][NextMain]_vars

(***************************************************************************)
(*   main, one run from the cache load to the final save, under every      *)
(*   choice of --skip-duplicates, --skip-low-bitrate and                   *)
(*   --force-re-fingerprint, with and without fpcalc                       *)
(***************************************************************************)

\* The files the walk found.
SkipFiles == {PathTable[1], PathTable[2]}

\* The cache file an earlier run left: the two files of the walk, the same
\* recording, and a file that has been taken out of the directory since.
CacheFileAtStart ==
    [p \in {PathTable[1], PathTable[2], PathTable[3]} |->
        [mtime |-> 1, size |-> 2, fingerprint_hex |-> Hex(<<171>>), duration |-> 4]]

\* Any command line, fpcalc found or not; each file of the walk may be gone
\* again when the validation loop comes to it.
InitSkip ==
    /\ RepairIdle
    /\ SaveIdle
    /\ QIdle
    /\ run_pc = "load_cache"
    /\ can_fingerprint_system_ok \in BOOLEAN
    /\ \E force \in BOOLEAN, skip_duplicates \in BOOLEAN, skip_low_bitrate \in BOOLEAN :
          args = [force_re_fingerprint |-> force, dry_run |-> FALSE,
                  skip_low_bitrate |-> skip_low_bitrate,
                  skip_duplicates |-> skip_duplicates]
    /\ audio_files = <<PathTable[1], PathTable[2]>>
    /\ fs \in [SkipFiles -> FileStates({1}, {2})]
    /\ fs_at_start = fs
    /\ runs = 1
    /\ cache_file = CacheFileAtStart
    /\ loop_i = 1
    /\ fp_cache_from_disk = EmptyMap
    /\ current_run_valid_cache_entries = EmptyMap
    /\ fingerprint_map = EmptyMap
    /\ files_needing_fingerprinting = <<>>
    /\ futures = EmptyMap
    /\ duplicates = EmptyMap
    /\ obtained = EmptyMap

NextSkip ==
    \/ LoadCache
    \/ ValidateCacheState
    \/ SkipDuplicateDetection
    \/ StartPreparing
    \/ PrepareForFingerprinting
    \/ SubmitAll
    \/ \E fp_path \in DOMAIN futures : WorkerRun(fp_path)
    \/ CollectResult
    \/ FinishCollecting
    \/ IdentifyDuplicates
    \/ StartDuplicateSession
    \/ VisitDuplicate
    \/ NextDuplicateSet
    \/ EndDuplicateSession
    \/ AskLowBitrate
    \/ FilterIgnored
    \/ StartLowBitrateSession
    \/ VisitLowBitrate
    \/ EndLowBitrateSession
    \/ SaveCache

SpecSkip == InitSkip /\ [][NextSkip]_vars

(***************************************************************************)
(*     main from the fingerprint groups through the duplicate session,     *)
(*     over files some of which have vanished since they were grouped      *)
(***************************************************************************)

\* The files of the model: one outside an Unsorted folder, one in
\* Music/Unsorted, one in a folder that only looks like it.
GoneFiles == {PathTable[1], PathTable[2], PathTable[5]}

\* The fingerprinting phase is over: every file is in one of the two
\* groups, in the order of the walk; since then any of the files has been
\* deleted or moved away by someone else.
InitGone ==
    /\ RepairIdle
    /\ SaveIdle
    /\ QIdle
    /\ run_pc = "identify"
    /\ can_fingerprint_system_ok = TRUE
    /\ \E dry_run \in BOOLEAN :
          args = [force_re_fingerprint |-> FALSE, dry_run |-> dry_run,
                  skip_low_bitrate |-> FALSE,
                  skip_duplicates |-> FALSE]
    /\ audio_files \in InjectiveSeqs(GoneFiles, {Cardinality(GoneFiles)})
    /\ \E key \in [GoneFiles -> QKeys] :
          /\ fingerprint_map =
                [k \in {key[f] : f \in GoneFiles} |->
                    SelectSeq(audio_files, LAMBDA f : key[f] = k)]
          /\ current_run_valid_cache_entries = [p \in GoneFiles |-> QEntry(key[p])]
    /\ fs \in [GoneFiles -> FileStates({1}, FileSizes)]
    /\ fs_at_start = fs
    /\ runs = 1
    /\ cache_file = EmptyMap
    /\ loop_i = 1
    /\ fp_cache_from_disk = EmptyMap
    /\ files_needing_fingerprinting = <<>>
    /\ futures = EmptyMap
    /\ duplicates = EmptyMap
    /\ obtained = EmptyMap

\* The environment: the duplicate the loop stands at is on disk at the test
\* of line 425 and is deleted or moved away by someone else before the
\* answer is in; main waits in input() (line 441), or is past the test in
\* yes-to-all mode (line 436).
VanishesAtPrompt ==
    /\ run_pc = "dup_prompt"
    /\ ~LoopHalted(quit_mode)
    /\ loop_i <= Len(sorted_duplicate_sets)
    /\ loop_j <= Len(sorted_duplicate_sets[loop_i][2])
    /\ fs[sorted_duplicate_sets[loop_i][2][loop_j]].exists
    /\ fs' = [fs EXCEPT ![sorted_duplicate_sets[loop_i][2][loop_j]] = NoFile]
    /\ run_pc' = "dup_prompted"
    /\ UNCHANGED <<args, can_fingerprint_system_ok, audio_files, loop_i, fp_cache_from_disk,
                   current_run_valid_cache_entries, fingerprint_map,
                   files_needing_fingerprinting, futures, duplicates, obtained,
                   cache_file, fs_at_start, runs>>
    /\ UNCHANGED <<varsRepair, varsQ, varsSave>>

\* Lines 436-465, the rest of the iteration for that duplicate: the answer
\* is taken as in VisitDuplicate, and on y, a and in yes-to-all mode
\* move_file_to_quarantine is called on the file that is gone.
AnswerAfterVanish ==
    /\ run_pc = "dup_prompted"
    /\ LET file_to_quarantine == sorted_duplicate_sets[loop_i][2][loop_j]
       IN \E user_response \in PromptResponses(remove_all_mode) :
             /\ inputs_read' = inputs_read + (IF user_response = "auto" THEN 0 ELSE 1)
             /\ answers' = Put(answers, file_to_quarantine, user_response)
             /\ twin' = AfterInput(user_response)
             /\ remove_all_mode' = (remove_all_mode \/ user_response = "a")
             /\ quit_mode' = (quit_mode \/ user_response = "q")
             /\ loop_j' = IF user_response = "q" THEN loop_j ELSE loop_j + 1
             /\ IF ShouldQuarantine(user_response)
                THEN \E raises \in MoveFaults(args.dry_run) :
                        LET out == move_file_to_quarantine(
                                       file_to_quarantine, effective_quarantine_path,
                                       args.dry_run, raises)
                        IN /\ fs' = out.fs
                           /\ quarantine_files' = out.quarantine_files
                           /\ move_calls' = Append(move_calls, out.call)
                           /\ files_quarantined_count' =
                                 files_quarantined_count + (IF out.ret THEN 1 ELSE 0)
                ELSE UNCHANGED <<fs, quarantine_files, move_calls,
                                 files_quarantined_count>>
    /\ run_pc' = "dup_prompt"
    /\ UNCHANGED <<args, can_fingerprint_system_ok, audio_files, loop_i, fp_cache_from_disk,
                   current_run_valid_cache_entries, fingerprint_map,
                   files_needing_fingerprinting, futures, duplicates, obtained,
                   cache_file, fs_at_start, runs>>
    /\ UNCHANGED <<sorted_duplicate_sets, response_check_low_br_for_save_logic,
                   low_bitrate_files_initially_detected, low_bitrate_files_to_prompt,
                   all_mode_lb, quit_mode_lb, quarantined_lb_count, at_session_start>>
    /\ UNCHANGED <<varsRepair, varsSave>>

NextGone ==
    \/ IdentifyDuplicates
    \/ StartDuplicateSession
    \/ VisitDuplicate
    \/ NextDuplicateSet
    \/ EndDuplicateSession
    \/ VanishesAtPrompt
    \/ AnswerAfterVanish

SpecGone == InitGone /\ [][NextGone]_vars

(***************************************************************************)
(*                 save_fingerprint_cache (lines 93-114)                   *)
(***************************************************************************)

\* There is no temporary file.
NoTemp == [state |-> "absent", data |-> <<>>]

\* Line 96: open(temp_cache_file_path, 'w') creates the file or empties it.
EmptyFile == [state |-> "empty", data |-> <<>>]

\* The temporary file when json.dump stopped half way.
PartialDump == [state |-> "partial", data |-> <<>>]

\* The temporary file when json.dump has written cache_data.
CompleteDump(cache_data) == [state |-> "complete", data |-> cache_data]

\* The final save is about to call save_fingerprint_cache: one audio file,
\* the cache file as the run loaded it (none, or any entry), any working
\* entry for the file, and no temporary file or one a killed run left.
InitSave ==
    /\ RepairIdle
    /\ QIdle
    /\ run_pc = "save"
    /\ can_fingerprint_system_ok = TRUE
    /\ \E dry_run \in BOOLEAN :
          args = [force_re_fingerprint |-> FALSE, dry_run |-> dry_run,
                  skip_low_bitrate |-> FALSE,
                  skip_duplicates |-> FALSE]
    /\ audio_files = <<PathTable[1]>>
    /\ fs = [p \in Range(audio_files) |-> [exists |-> TRUE, mtime |-> 1, size |-> 2]]
    /\ fs_at_start = fs
    /\ runs = 1
    /\ cache_file \in {EmptyMap} \cup
                      {(audio_files[1] :> e) : e \in CacheEntriesFor(fs[audio_files[1]])}
    /\ fp_cache_from_disk = cache_file
    /\ current_run_valid_cache_entries \in
          {(audio_files[1] :> e) : e \in CacheEntriesFor(fs[audio_files[1]])}
    /\ loop_i = 1
    /\ fingerprint_map = EmptyMap
    /\ files_needing_fingerprinting = <<>>
    /\ futures = EmptyMap
    /\ duplicates = EmptyMap
    /\ obtained = EmptyMap
    /\ save_pc = "open"
    /\ temp_cache_file \in {NoTemp, PartialDump}
    /\ save_log = {}

\* Line 96: open(temp_cache_file_path, 'w'); it raises when the file cannot
\* be created or opened for writing.
SaveOpen ==
    /\ save_pc = "open"
    /\ \/ /\ temp_cache_file' = EmptyFile
          /\ save_pc' = "dump"
       \/ /\ temp_cache_file' = temp_cache_file
          /\ save_pc' = "failed"
    /\ UNCHANGED <<save_log, varsRepair, varsRun, varsQ>>

\* Line 97: json.dump writes cache_data and the file is closed; it raises
\* with the file partly written (disk full, a value json cannot encode).
SaveDump ==
    /\ save_pc = "dump"
    /\ \/ /\ temp_cache_file' = CompleteDump(final_cache_to_save)
          /\ save_pc' = "replace"
       \/ /\ temp_cache_file' \in {EmptyFile, PartialDump}
          /\ save_pc' = "failed"
    /\ UNCHANGED <<save_log, varsRepair, varsRun, varsQ>>

\* Line 99: os.replace(temp_cache_file_path, cache_file_path) puts the
\* temporary file in the place of the cache file in one step, or raises and
\* changes nothing.
SaveReplace ==
    /\ save_pc = "replace"
    /\ \/ /\ cache_file' = temp_cache_file.data
          /\ temp_cache_file' = NoTemp
          /\ save_pc' = "saved"
       \/ /\ UNCHANGED <<cache_file, temp_cache_file>>
          /\ save_pc' = "failed"
    /\ UNCHANGED <<run_pc, args, can_fingerprint_system_ok, fs, audio_files, loop_i, fp_cache_from_disk,
                   current_run_valid_cache_entries, fingerprint_map,
                   files_needing_fingerprinting, futures, duplicates, obtained,
                   fs_at_start, runs>>
    /\ UNCHANGED <<save_log, varsRepair, varsQ>>

\* Mutant of RemoveTemp: the temporary file is not removed.
RemoveTemp_Keep(temp, removed) == temp

\* Lines 104 and 111: os.remove(temp_cache_file_path), which can raise.
RemoveTemp(temp, removed) == IF removed THEN NoTemp ELSE temp

\* Lines 101-113: either except clause logs the error and removes the
\* temporary file if it exists; an OSError of os.remove is logged.
SaveCleanup ==
    /\ save_pc = "failed"
    /\ save_pc' = "not_saved"
    /\ IF temp_cache_file = NoTemp
       THEN /\ save_log' = save_log \cup {"could_not_save"}
            /\ UNCHANGED temp_cache_file
       ELSE \E removed \in BOOLEAN :
               /\ temp_cache_file' = RemoveTemp(temp_cache_file, removed)
               /\ save_log' = save_log \cup {"could_not_save"} \cup
                                 (IF removed THEN {} ELSE {"could_not_remove_temp"})
    /\ UNCHANGED <<varsRepair, varsRun, varsQ>>

\* Lines 1113-1127: save_fingerprint_cache has returned, main ends.
SaveReturn ==
    /\ save_pc \in {"saved", "not_saved"}
    /\ run_pc = "save"
    /\ run_pc' = "finished"
    /\ UNCHANGED <<args, can_fingerprint_system_ok, fs, audio_files, loop_i, fp_cache_from_disk,
                   current_run_valid_cache_entries, fingerprint_map,
                   files_needing_fingerprinting, futures, duplicates, obtained,
                   cache_file, fs_at_start, runs>>
    /\ UNCHANGED <<varsRepair, varsQ, varsSave>>

NextSave ==
    \/ SaveOpen
    \/ SaveDump
    \/ SaveReplace
    \/ SaveCleanup
    \/ SaveReturn

SpecSave == InitSave /\ [][NextSave]_vars

(***************************************************************************)
(*     A dry run and a real run on the same files, cache and answers       *)
(***************************************************************************)

\* The sessions of a dry run, the answers of the user and the files
\* check_bitrate reports being recorded.  Two files, fingerprinted into one
\* group or two; at most one of them with the ignore flag of an earlier run.
InitTwin ==
    /\ RepairIdle
    /\ SaveIdle
    /\ run_pc = "identify"
    /\ can_fingerprint_system_ok = TRUE
    /\ args = [force_re_fingerprint |-> FALSE, dry_run |-> TRUE,
               skip_low_bitrate |-> FALSE,
               skip_duplicates |-> FALSE]
    /\ audio_files = <<PathTable[1], PathTable[2]>>
    /\ \E ignored \in {S \in SUBSET Range(audio_files) : Cardinality(S) <= 1} :
          \E key \in [Range(audio_files) -> QKeys] :
             /\ fingerprint_map =
                   [k \in {key[f] : f \in DOMAIN key} |->
                       SelectSeq(audio_files, LAMBDA f : key[f] = k)]
             /\ current_run_valid_cache_entries =
                   [p \in Range(audio_files) |->
                       IF p \in ignored
                       THEN Update(QEntry(key[p]), [low_bitrate_ignored |-> TRUE])
                       ELSE QEntry(key[p])]
    /\ fs = [p \in Range(audio_files) |-> [exists |-> TRUE, mtime |-> 1, size |-> 2]]
    /\ fs_at_start = fs
    /\ runs = 1
    /\ cache_file = EmptyMap
    /\ loop_i = 1
    /\ fp_cache_from_disk = EmptyMap
    /\ files_needing_fingerprinting = <<>>
    /\ futures = EmptyMap
    /\ duplicates = EmptyMap
    /\ obtained = EmptyMap
    /\ quarantine_files = <<>>
    /\ sorted_duplicate_sets = <<>>
    /\ loop_j = 1
    /\ remove_all_mode = FALSE
    /\ quit_mode = FALSE
    /\ files_quarantined_count = 0
    /\ response_check_low_br_for_save_logic = "n"
    /\ low_bitrate_files_initially_detected = <<>>
    /\ low_bitrate_files_to_prompt = <<>>
    /\ all_mode_lb = FALSE
    /\ quit_mode_lb = FALSE
    /\ quarantined_lb_count = 0
    /\ inputs_read = 0
    /\ answers = <<>>
    /\ move_calls = <<>>
    /\ at_session_start = <<>>
    /\ twin = [mode |-> "record", script |-> <<>>, cursor |-> 0, low_bitrate |-> <<>>,
               files_quarantined_count |-> 0, reported |-> <<>>,
               entries |-> current_run_valid_cache_entries]

\* The dry run is over; main is run again without --dry-run on the files,
\* the cache and the duplicate sets the dry run began with, and reads the
\* answers the dry run read.  The counts the dry run reported are kept.
RepeatAsRealRun ==
    /\ run_pc = "finished"
    /\ twin.mode = "record"
    /\ twin' = [twin EXCEPT !.mode = "replay", !.cursor = 1,
                            !.files_quarantined_count = 0,
                            !.reported = <<twin.files_quarantined_count,
                                           quarantined_lb_count>>]
    /\ UNCHANGED can_fingerprint_system_ok
    /\ args' = [args EXCEPT !.dry_run = FALSE]
    /\ run_pc' = "identified"
    /\ current_run_valid_cache_entries' = twin.entries
    /\ cache_file' = EmptyMap
    /\ loop_i' = 1
    /\ sorted_duplicate_sets' = <<>>
    /\ loop_j' = 1
    /\ remove_all_mode' = FALSE
    /\ quit_mode' = FALSE
    /\ files_quarantined_count' = 0
    /\ response_check_low_br_for_save_logic' = "n"
    /\ low_bitrate_files_initially_detected' = <<>>
    /\ low_bitrate_files_to_prompt' = <<>>
    /\ all_mode_lb' = FALSE
    /\ quit_mode_lb' = FALSE
    /\ quarantined_lb_count' = 0
    /\ inputs_read' = 0
    /\ answers' = <<>>
    /\ move_calls' = <<>>
    /\ at_session_start' = <<>>
    /\ UNCHANGED <<fs, audio_files, fp_cache_from_disk, fingerprint_map,
                   files_needing_fingerprinting, futures, duplicates, obtained,
                   fs_at_start, runs, quarantine_files>>
    /\ UNCHANGED <<varsRepair, varsSave>>

NextTwin ==
    \/ IdentifyDuplicates
    \/ StartDuplicateSession
    \/ VisitDuplicate
    \/ NextDuplicateSet
    \/ EndDuplicateSession
    \/ AskLowBitrate
    \/ FilterIgnored
    \/ StartLowBitrateSession
    \/ VisitLowBitrate
    \/ EndLowBitrateSession
    \/ SaveCache
    \/ RepeatAsRealRun

SpecTwin == InitTwin /\ [][NextTwin]_vars

(***************************************************************************)
(*                  Claims about canonical selection                       *)
(***************************************************************************)

\* The files of PathTable that lie in a Music/Unsorted folder, whatever the
\* letter case: /Music/Unsorted/B.mp3 and /music/unsorted/A.mp3.
InUnsortedFolder == {PathTable[2], PathTable[4]}

\* The size a file has on disk, 0 for a file that is gone.
SizeOnDisk(p) == IF fs[p].exists THEN fs[p].size ELSE 0

\* The members of the duplicate set whose canonical file is c.
SetMembers(c) == {c} \cup Range(duplicates[c])

\* C5: in every duplicate set the canonical file is outside the unsorted
\* folder if any member is; no member with the canonical file's unsorted
\* flag is larger than it; and every other member equal to it in flag and
\* size has a greater path string.
C5_CanonicalSelection ==
    run_pc = "identified" =>
        \A c \in DOMAIN duplicates :
            /\ (\E m \in SetMembers(c) : m \notin InUnsortedFolder)
                   => c \notin InUnsortedFolder
            /\ \A m \in SetMembers(c) \ {c} :
                  ((m \in InUnsortedFolder) = (c \in InUnsortedFolder))
                      => /\ SizeOnDisk(m) <= SizeOnDisk(c)
                         /\ SizeOnDisk(m) = SizeOnDisk(c) => StrLess(c, m)

\* C5 witness: a set of three whose canonical file is chosen by the path,
\* being equal in flag and size to another member, with an unsorted member.
C5_Witness ==
    /\ run_pc = "identified"
    /\ \E c \in DOMAIN duplicates :
          /\ Len(duplicates[c]) = 2
          /\ \E m \in Range(duplicates[c]) : m \in InUnsortedFolder
          /\ \E m \in Range(duplicates[c]) :
                /\ m \notin InUnsortedFolder
                /\ fs[m].exists /\ fs[c].exists /\ fs[m].size = fs[c].size

\* The orders in which the files of a set can have been inserted in a group.
Orders(S) == InjectiveSeqs(S, {Cardinality(S)})

\* C6: the canonical file of a group depends only on the set of its members,
\* their sizes and their unsorted flags: whatever the order in which the
\* members were inserted, the same file is selected.
C6_CanonicalDeterministic ==
    run_pc = "identified" =>
        \A c \in DOMAIN duplicates :
            \A q \in Orders(SetMembers(c)) : SortFiles(q)[1] = c

\* C6 witness: a duplicate set whose members were inserted in an order that
\* is not the sorted one, two of them equal in flag and size.
C6_Witness ==
    /\ run_pc = "identified"
    /\ \E c \in DOMAIN duplicates :
          /\ \E m \in Range(duplicates[c]) :
                /\ (m \in InUnsortedFolder) = (c \in InUnsortedFolder)
                /\ SizeOnDisk(m) = SizeOnDisk(c)
          /\ \E q \in Orders(SetMembers(c)) : q[1] # c

(***************************************************************************)
(*             Claims about the cache and the grouping                     *)
(***************************************************************************)

\* The file is on disk as the cache file describes it: same mtime and size
\* as when the earlier run wrote its entry.
UnchangedSinceCached(f) ==
    /\ f \in DOMAIN cache_file
    /\ fs_at_start[f].exists
    /\ cache_file[f].mtime = fs_at_start[f].mtime
    /\ cache_file[f].size = fs_at_start[f].size

\* The file was handed to the executor for get_audio_fingerprint.
Submitted(f) == f \in Range(files_needing_fingerprinting) \/ f \in DOMAIN futures

\* The lower-case and upper-case hexadecimal digits.
HexChars == {"0", "1", "2", "3", "4", "5", "6", "7", "8", "9",
             "a", "b", "c", "d", "e", "f", "A", "B", "C", "D", "E", "F"}

\* The cache entry holds a duration and a fingerprint that decodes: an even
\* number of hexadecimal digits.
HoldsFingerprint(entry) ==
    /\ "duration" \in DOMAIN entry
    /\ "fingerprint_hex" \in DOMAIN entry
    /\ Len(entry.fingerprint_hex) % 2 = 0
    /\ \A i \in DOMAIN entry.fingerprint_hex : entry.fingerprint_hex[i] \in HexChars

\* The preparation loop has gone past every file.
Prepared == run_pc \in {"collect", "identify", "identified"}

\* C3 as stated: a file whose mtime and size are those of its cache entry is
\* never submitted for analysis.
C3_UnchangedNotAnalysed_AsStated ==
    \A f \in RunFiles : UnchangedSinceCached(f) => ~Submitted(f)

\* C3 amended: in a run without --force-re-fingerprint, a file whose mtime
\* and size are those of its cache entry, the entry holding a duration and a
\* decodable fingerprint, is never submitted for analysis; its working entry
\* is the cached one, and once the preparation is over it is grouped under
\* its cached fingerprint and duration.
C3_UnchangedNotAnalysed ==
    \A f \in RunFiles :
        (/\ UnchangedSinceCached(f)
         /\ HoldsFingerprint(cache_file[f])
         /\ ~args.force_re_fingerprint)
            => /\ ~Submitted(f)
               /\ Prepared =>
                     /\ current_run_valid_cache_entries[f] = cache_file[f]
                     /\ obtained[f] = <<FromHex(cache_file[f].fingerprint_hex),
                                        cache_file[f].duration>>
                     /\ \E k \in DOMAIN fingerprint_map :
                           /\ k[1] = FromHex(cache_file[f].fingerprint_hex)
                           /\ f \in Range(fingerprint_map[k])

\* C3 witness: the results are in, one file was analysed and the other, not
\* changed since its entry was written, was taken from the cache.
C3_Witness ==
    /\ run_pc = "identify"
    /\ ~args.force_re_fingerprint
    /\ \E f, g \in RunFiles :
          /\ UnchangedSinceCached(f) /\ HoldsFingerprint(cache_file[f])
          /\ ~Submitted(f) /\ f \in DOMAIN obtained
          /\ Submitted(g) /\ futures[g].state = "done"

\* The fingerprint and the duration the run has for the file, from the cache
\* or from the analysis, are those of the other file up to rounding.
SameFingerprintAndDuration(f, g) ==
    /\ obtained[f][1] = obtained[g][1]
    /\ PyRound(obtained[f][2]) = PyRound(obtained[g][2])

\* The two files are in one fingerprint group.
SameGroup(f, g) ==
    \E k \in DOMAIN fingerprint_map : {f, g} \subseteq Range(fingerprint_map[k])

\* C4: once every result is merged, two files with the same fingerprint and
\* the same rounded duration are in one fingerprint group, and after the
\* identification in one duplicate set, whatever the order of the files and
\* whether their fingerprints came from the cache or from the analysis; and
\* every duplicate set has a canonical file and at least one duplicate.
C4_SameKeySameGroup ==
    /\ run_pc \in {"identify", "identified"} =>
          \A f, g \in DOMAIN obtained :
              SameFingerprintAndDuration(f, g) => SameGroup(f, g)
    /\ run_pc = "identified" =>
          /\ \A f, g \in DOMAIN obtained :
                (f # g /\ SameFingerprintAndDuration(f, g))
                    => \E c \in DOMAIN duplicates : {f, g} \subseteq SetMembers(c)
          /\ \A c \in DOMAIN duplicates : Cardinality(SetMembers(c)) >= 2
    /\ \A c \in DOMAIN duplicates : duplicates[c] # <<>>

\* C4 witness: a duplicate set of a file taken from the cache and a file
\* analysed in this run, their durations different before rounding, the
\* analysed file first in the walk.
C4_Witness ==
    /\ run_pc = "identified"
    /\ \E f, g \in DOMAIN obtained :
          /\ ~Submitted(f) /\ Submitted(g)
          /\ audio_files = <<g, f>>
          /\ obtained[f][2] # obtained[g][2]
          /\ SameFingerprintAndDuration(f, g)
          /\ \E c \in DOMAIN duplicates : SetMembers(c) = {f, g}

(***************************************************************************)
(*                 Claims about the quarantine moves                       *)
(***************************************************************************)

\* The files of the tree whose name is A.mp3.
NamedA == {PathTable[1], PathTable[4], PathTable[5]}

\* A.mp3 in the quarantine directory for k = 0, "A (k).mp3" for k in 1..9.
CollisionName(k) ==
    IF k = 0 THEN <<"/", "D", "/", "A", ".", "m", "p", "3">>
    ELSE <<"/", "D", "/", "A", " ", "(">>
             \o <<(<<"1", "2", "3", "4", "5", "6", "7", "8", "9">>)[k]>>
             \o <<")", ".", "m", "p", "3">>

\* The paths that were in quarantine just before the i-th call.
InQuarantineBefore(i) ==
    DOMAIN at_session_start.quarantine_files
        \cup {move_calls[j].dest : j \in {n \in 1..(i - 1) : move_calls[n].moved}}

\* C7: every file that was in the quarantine directory before the calls is
\* still there with its content; every file moved is at the destination of
\* its call, a path that did not exist when the call was made; a file named
\* A.mp3 lands as A.mp3 or as "A (k).mp3" with A.mp3 and every lower counter
\* taken, so that in a directory holding no such name the second A.mp3
\* lands as "A (1).mp3" and the one after k collisions as "A (k).mp3".
C7_NeverOverwrites ==
    /\ \A p \in DOMAIN at_session_start.quarantine_files :
          p \in DOMAIN quarantine_files /\ quarantine_files[p] = "earlier"
    /\ \A i \in DOMAIN move_calls :
          move_calls[i].moved =>
              /\ quarantine_files[move_calls[i].dest] = move_calls[i].source
              /\ move_calls[i].dest \notin InQuarantineBefore(i)
              /\ move_calls[i].source \in NamedA =>
                    \E k \in 0..(MaxCounter + MaxCalls) :
                        /\ move_calls[i].dest = CollisionName(k)
                        /\ \A j \in 0..(k - 1) : CollisionName(j) \in InQuarantineBefore(i)
                        /\ at_session_start.quarantine_files = EmptyMap =>
                              k = Cardinality({n \in 1..(i - 1) :
                                                  /\ move_calls[n].moved
                                                  /\ move_calls[n].source \in NamedA})

\* C7 witness: A.mp3 was in quarantine before, and two files named A.mp3
\* were moved in, to "A (1).mp3" and "A (2).mp3".
C7_Witness ==
    /\ run_pc = "moving"
    /\ DOMAIN at_session_start.quarantine_files = {CollisionName(0)}
    /\ \E f, g \in NamedA :
          /\ f # g
          /\ CollisionName(1) \in DOMAIN quarantine_files
          /\ quarantine_files[CollisionName(1)] = f
          /\ CollisionName(2) \in DOMAIN quarantine_files
          /\ quarantine_files[CollisionName(2)] = g

(***************************************************************************)
(*               Claims about the interactive sessions                     *)
(***************************************************************************)

\* The low_bitrate_ignored flag of every working cache entry: unset, true
\* or false.
IgnoredFlags ==
    [p \in DOMAIN current_run_valid_cache_entries |->
        IF "low_bitrate_ignored" \notin DOMAIN current_run_valid_cache_entries[p]
        THEN "unset"
        ELSE IF current_run_valid_cache_entries[p].low_bitrate_ignored THEN "true"
             ELSE "false"]

\* Quit was chosen in the session that is running.
QuitChosen ==
    \/ run_pc = "dup_prompt" /\ quit_mode
    \/ run_pc = "lb_prompt" /\ quit_mode_lb

\* C8: from the step in which q is answered to the end of the session, in
\* the duplicate flow and in the low bitrate flow, no file is moved, no
\* call of move_file_to_quarantine is made and no entry's ignore flag
\* changes; and what was moved before stays moved: no step takes a file out
\* of quarantine or puts a moved file back.
C8_QuitStopsSession ==
    [][/\ QuitChosen =>
             /\ fs' = fs
             /\ quarantine_files' = quarantine_files
             /\ move_calls' = move_calls
             /\ IgnoredFlags' = IgnoredFlags
       /\ \A p \in DOMAIN quarantine_files :
             p \in DOMAIN quarantine_files' /\ quarantine_files'[p] = quarantine_files[p]
       /\ \A f \in DOMAIN fs : ~fs[f].exists => ~fs'[f].exists]_vars

\* C8 witness: in the duplicate flow of a real run q was answered after one
\* duplicate had been moved, with a duplicate of the set not yet visited.
C8_Witness ==
    /\ run_pc = "dup_prompt"
    /\ quit_mode
    /\ Len(move_calls) = 1 /\ move_calls[1].moved
    /\ loop_j < Len(sorted_duplicate_sets[loop_i][2])
    /\ quarantine_files # EmptyMap

\* The step reads a y, n or a for the file at a low bitrate prompt.
DecisionObtainedFor(f) ==
    /\ run_pc = "lb_prompt"
    /\ loop_i <= Len(low_bitrate_files_to_prompt)
    /\ low_bitrate_files_to_prompt[loop_i] = f
    /\ inputs_read' = inputs_read + 1
    /\ f \in DOMAIN answers' /\ answers'[f] \in {"y", "n", "a"}

\* C31 as stated: a step of the run changes the ignore flag of a file's
\* entry, from unset, true or false to another of the three, only when it
\* reads the user's y, n or a for that file; the filter before the prompts,
\* yes-to-all mode and the final save change no flag.
C31_FlagOnlyByDecision ==
    [][\A f \in DOMAIN IgnoredFlags :
          (f \in DOMAIN IgnoredFlags' /\ IgnoredFlags'[f] # IgnoredFlags[f])
              => DecisionObtainedFor(f)]_vars

\* The files of the running duplicate session that come after the one at
\* which the loop stands.
UnvisitedDuplicates ==
    {sorted_duplicate_sets[loop_i][2][j] :
        j \in (loop_j + 1)..Len(sorted_duplicate_sets[loop_i][2])}
    \cup UNION {Range(sorted_duplicate_sets[i][2]) :
                   i \in (loop_i + 1)..Len(sorted_duplicate_sets)}

\* The files of the low bitrate prompt list that come after the one at
\* which the loop stands.
UnvisitedLowBitrate ==
    {low_bitrate_files_to_prompt[i] : i \in (loop_i + 1)..Len(low_bitrate_files_to_prompt)}

\* The entry of the file has the mtime, size, fingerprint and ignore flag,
\* set or unset, it had when the session began.
EntryAsAtSessionStart(f) ==
    \A k \in {"mtime", "size", "fingerprint_hex", "low_bitrate_ignored"} :
        LET now == current_run_valid_cache_entries[f]
            before == at_session_start.entries[f]
        IN /\ (k \in DOMAIN now) = (k \in DOMAIN before)
           /\ k \in DOMAIN now => now[k] = before[k]

\* C9 as stated: once q is answered, every file of the session not yet
\* visited is on disk as it was when the session began, and its cache entry
\* has the mtime, size, fingerprint and ignore flag it had then; the low
\* bitrate session begins with the scan for candidates, before the filter
\* of lines 977-996.
C9_UnvisitedUnmodified ==
    /\ (run_pc = "dup_prompt" /\ quit_mode) =>
          \A f \in UnvisitedDuplicates :
              fs[f] = at_session_start.fs[f] /\ EntryAsAtSessionStart(f)
    /\ (run_pc \in {"lb_prompt", "save", "finished"} /\ quit_mode_lb) =>
          \A f \in UnvisitedLowBitrate :
              fs[f] = at_session_start.fs[f] /\ EntryAsAtSessionStart(f)

\* The file the duplicate loop and the low bitrate loop stand at.
DuplicateAtLoop == sorted_duplicate_sets[loop_i][2][loop_j]
LowBitrateAtLoop == low_bitrate_files_to_prompt[loop_i]

\* The step calls move_file_to_quarantine on the file; a call that moved the
\* file took it from its path into quarantine.
MoveCalledOn(f) ==
    /\ Len(move_calls') = Len(move_calls) + 1
    /\ LET call == move_calls'[Len(move_calls')]
       IN /\ call.source = f
          /\ SubSeq(move_calls', 1, Len(move_calls)) = move_calls
          /\ call.moved => /\ ~fs'[f].exists
                           /\ call.dest \in DOMAIN quarantine_files'
                           /\ quarantine_files'[call.dest] = f

\* C10: the step in which a is answered calls move_file_to_quarantine on
\* the file the prompt was about; and while yes-to-all is on, in the
\* duplicate flow and in the low bitrate flow, no input is read and every
\* step that visits a file still on disk calls move_file_to_quarantine on
\* it.
C10_AllModeMovesWithoutInput ==
    [][/\ (run_pc = "dup_prompt" /\ ~remove_all_mode /\ remove_all_mode')
             => MoveCalledOn(DuplicateAtLoop)
       /\ (run_pc = "dup_prompt" /\ remove_all_mode) =>
             /\ inputs_read' = inputs_read
             /\ (run_pc' = "dup_prompt" /\ loop_i' = loop_i /\ loop_j' = loop_j + 1
                 /\ fs[DuplicateAtLoop].exists) => MoveCalledOn(DuplicateAtLoop)
       /\ (run_pc = "lb_prompt" /\ ~all_mode_lb /\ all_mode_lb')
             => MoveCalledOn(LowBitrateAtLoop)
       /\ (run_pc = "lb_prompt" /\ all_mode_lb) =>
             /\ inputs_read' = inputs_read
             /\ (run_pc' = "lb_prompt" /\ loop_i' = loop_i + 1
                 /\ fs[LowBitrateAtLoop].exists) => MoveCalledOn(LowBitrateAtLoop)]_vars

\* C10 witness: in a real run a was answered at the first of three
\* duplicates, and all three were moved on that one answer.
C10_Witness ==
    /\ run_pc = "dup_prompt"
    /\ remove_all_mode
    /\ inputs_read = 1
    /\ Len(move_calls) = 3
    /\ \A i \in 1..3 : move_calls[i].moved

\* prompt_to_remove_duplicates is in its loops.
InDuplicateSession == run_pc = "dup_prompt"

\* The list the session goes through holds the duplicate sets, each once,
\* in ascending order of the canonical path.
SetsAscending ==
    /\ {sorted_duplicate_sets[i][1] : i \in DOMAIN sorted_duplicate_sets} = DOMAIN duplicates
    /\ \A i \in DOMAIN sorted_duplicate_sets :
          sorted_duplicate_sets[i][2] = duplicates[sorted_duplicate_sets[i][1]]
    /\ \A i, j \in DOMAIN sorted_duplicate_sets :
          i < j => StrLess(sorted_duplicate_sets[i][1], sorted_duplicate_sets[j][1])

\* The session goes forward through that list: to the next duplicate of
\* the set, or to the first duplicate of the next set.
VisitsInListOrder ==
    (InDuplicateSession /\ InDuplicateSession') =>
        /\ sorted_duplicate_sets' = sorted_duplicate_sets
        /\ \/ loop_i' = loop_i /\ loop_j' \in {loop_j, loop_j + 1}
           \/ loop_i' = loop_i + 1 /\ loop_j' = 1
                 /\ loop_j > Len(sorted_duplicate_sets[loop_i][2])

\* C23: the duplicate session visits the duplicate sets in ascending order
\* of canonical path: the list it goes through is fixed by the duplicate
\* sets alone, and it goes through it from the first set to the last, so
\* the sequence of files presented depends on the sets and the answers only.
C23_SetsInCanonicalOrder ==
    /\ [](InDuplicateSession => SetsAscending)
    /\ [][VisitsInListOrder]_vars

\* Witness: the session has reached the second of two duplicate sets.
C23_Witness ==
    /\ InDuplicateSession
    /\ Len(sorted_duplicate_sets) = 2
    /\ loop_i = 2
    /\ loop_j <= Len(sorted_duplicate_sets[2][2])

(***************************************************************************)
(*                   Claims about the validity gate                        *)
(***************************************************************************)

\* The preparation loop has gone past every file and nothing is submitted
\* yet: the working entries are as the validation loop made them.
PreparationOver == run_pc = "prepare" /\ loop_i > Len(WorkingCacheKeys)

\* The entry the validation makes for a file without a matching cache entry.
FreshStat(f) == [mtime |-> fs_at_start[f].mtime, size |-> fs_at_start[f].size]

Queued(f) == f \in Range(files_needing_fingerprinting)

\* Valid in the words of the claim: mtime and size are those of the file,
\* fingerprint and duration are present.
ValidAsClaimed(f) ==
    /\ UnchangedSinceCached(f)
    /\ "fingerprint_hex" \in DOMAIN cache_file[f]
    /\ "duration" \in DOMAIN cache_file[f]

CopiedFromCache(f) == ~args.force_re_fingerprint /\ UnchangedSinceCached(f)

BothOrNeither(entry) ==
    ("fingerprint_hex" \in DOMAIN entry) <=> ("duration" \in DOMAIN entry)

\* C18 as the claim states it: whatever the cache file held when the run
\* began, every entry of the working cache, and every entry of the cache
\* file once the run has saved it, has fingerprint and duration both or
\* neither.
C18_FingerprintWithDuration ==
    /\ \A f \in DOMAIN current_run_valid_cache_entries :
          BothOrNeither(current_run_valid_cache_entries[f])
    /\ (run_pc = "finished" /\ cache_file = final_cache_to_save)
          => \A f \in DOMAIN cache_file : BothOrNeither(cache_file[f])

(***************************************************************************)
(*                   Claims about the ignore flag                          *)
(***************************************************************************)

\* The cache (the working one or the cache file) marks the file as ignored.
MarkedIgnored(cache, f) ==
    /\ f \in DOMAIN cache
    /\ "low_bitrate_ignored" \in DOMAIN cache[f]
    /\ cache[f].low_bitrate_ignored = TRUE

\* The file is on disk with the mtime and size of its entry in the cache.
StatAsIn(cache, f) ==
    /\ f \in DOMAIN cache
    /\ fs[f].exists
    /\ "mtime" \in DOMAIN cache[f] /\ cache[f].mtime = fs[f].mtime
    /\ "size" \in DOMAIN cache[f] /\ cache[f].size = fs[f].size

\* Until the run saves, cache_file is what the runs before left: the file
\* was skipped in an earlier run and has the mtime and size it had then.
SkippedEarlierAndUnchanged(f) ==
    /\ run_pc # "finished"
    /\ MarkedIgnored(cache_file, f)
    /\ StatAsIn(cache_file, f)

PromptedForLowBitrate(f) == f \in Range(low_bitrate_files_to_prompt)

\* The run analysed the file anew and got a fingerprint.
ReanalysedWithSuccess(f) ==
    /\ f \in DOMAIN futures
    /\ futures[f].state = "done"
    /\ futures[f].result # <<>>

\* C11 as the claim states it: a file skipped in an earlier run whose mtime
\* and size are unchanged is not prompted again in the low bitrate flow of
\* any later run.
C11_SkipNotPromptedAgain_AsStated ==
    \A f \in DOMAIN fs : SkippedEarlierAndUnchanged(f) => ~PromptedForLowBitrate(f)

\* C11: when a run ends in which the user skipped the file ("n") in the low
\* bitrate flow, the working entry of the file carries the ignore flag True
\* with the file's mtime and size, and so does the cache file if the save
\* wrote it; and in a later run that reads the cache (no
\* --force-re-fingerprint) and does not analyse the file anew with success,
\* the file, its mtime and size unchanged, is not prompted again.
C11_SkipNotPromptedAgain ==
    /\ \A f \in DOMAIN answers :
          (run_pc = "finished" /\ answers[f] = "n")
             => /\ MarkedIgnored(current_run_valid_cache_entries, f)
                /\ StatAsIn(current_run_valid_cache_entries, f)
                /\ cache_file = final_cache_to_save
                      => MarkedIgnored(cache_file, f) /\ StatAsIn(cache_file, f)
    /\ \A f \in DOMAIN fs :
          (/\ SkippedEarlierAndUnchanged(f)
           /\ ~args.force_re_fingerprint
           /\ ~ReanalysedWithSuccess(f))
             => ~PromptedForLowBitrate(f)

\* A second run reports the skipped, unchanged file as a low bitrate
\* candidate and passes it over without a prompt.
C11_Witness ==
    /\ runs = 2
    /\ run_pc = "save"
    /\ ~args.force_re_fingerprint
    /\ \E f \in Range(low_bitrate_files_initially_detected) :
          /\ SkippedEarlierAndUnchanged(f)
          /\ ~ReanalysedWithSuccess(f)
          /\ ~PromptedForLowBitrate(f)

\* The low bitrate flow is at its prompts or past them.
InOrAfterLowBitratePrompts == run_pc \in {"lb_prompt", "save", "finished"}

\* C12: in the low bitrate flow, a file whose outcome was anything but the
\* answer n (y, a, the move without prompt in yes-to-all mode, q, or an
\* unrecognised answer) has a working cache entry whose ignore flag is not
\* True, and so has the cache file the run wrote.
C12_OtherOutcomesNotIgnored ==
    \A f \in DOMAIN answers :
       (InOrAfterLowBitratePrompts /\ answers[f] # "n")
          => /\ ~MarkedIgnored(current_run_valid_cache_entries, f)
             /\ (run_pc = "finished" /\ cache_file = final_cache_to_save)
                   => ~MarkedIgnored(cache_file, f)

\* A dry run ends with a cache file that holds the unmarked entries of a
\* file answered a and of a file moved without prompt after it.
C12_Witness ==
    /\ run_pc = "finished"
    /\ cache_file = final_cache_to_save
    /\ \E f, g \in DOMAIN cache_file :
          /\ f \in DOMAIN answers /\ answers[f] = "a"
          /\ g \in DOMAIN answers /\ answers[g] = "auto"
          /\ ~MarkedIgnored(cache_file, f)
          /\ ~MarkedIgnored(cache_file, g)

\* main has taken the result of the file's analysis from its future, and
\* the low bitrate flow has not begun.
ResultCollected(f) ==
    /\ f \in DOMAIN futures
    /\ \/ run_pc \in {"identify", "identified", "dup_prompt", "low_bitrate_ask"}
       \/ /\ run_pc = "collect"
          /\ \E i \in 1..(loop_i - 1) : files_needing_fingerprinting[i] = f

\* C13: once main has collected a successful analysis of a file, the working
\* cache entry of the file holds the fingerprint and the duration of that
\* analysis, the mtime and size the file has now, and no ignore flag,
\* whatever the entry held before.
C13_ReanalysisClearsFlag ==
    \A f \in DOMAIN futures :
       (ResultCollected(f) /\ ReanalysedWithSuccess(f))
          => LET entry == current_run_valid_cache_entries[f]
             IN /\ entry.fingerprint_hex = Hex(futures[f].result.fp_bytes)
                /\ entry.duration = futures[f].result.duration
                /\ entry.mtime = fs[f].mtime
                /\ entry.size = fs[f].size
                /\ "low_bitrate_ignored" \notin DOMAIN entry

\* A file whose cache entry carried the ignore flag and matched the file
\* when the run began has been analysed anew with success, and rewritten by
\* the repair on the way.
C13_Witness ==
    \E f \in DOMAIN futures :
       /\ ResultCollected(f)
       /\ ReanalysedWithSuccess(f)
       /\ MarkedIgnored(fp_cache_from_disk, f)
       /\ fp_cache_from_disk[f].mtime = fs_at_start[f].mtime
       /\ fp_cache_from_disk[f].size = fs_at_start[f].size
       /\ fs[f].mtime # fs_at_start[f].mtime
       /\ "low_bitrate_ignored" \notin DOMAIN current_run_valid_cache_entries[f]

(***************************************************************************)
(*                       Claims about dry runs                             *)
(***************************************************************************)

\* C14 as the claim states it: no step of a dry run changes the audio files
\* (none moved, none rewritten by a repair), the quarantine directory or the
\* cache file.
C14_DryRunMutatesNothing ==
    [][args.dry_run => /\ fs' = fs
                       /\ quarantine_files' = quarantine_files
                       /\ cache_file' = cache_file]_vars

\* The step answers y at the prompt for the duplicate the loops are at.
AnswersYesToDuplicate ==
    /\ run_pc = "dup_prompt"
    /\ inputs_read' = inputs_read + 1
    /\ DuplicateAtLoop \in DOMAIN answers'
    /\ answers'[DuplicateAtLoop] = "y"

\* C15: in a dry run, the step in which the user answers y for a duplicate
\* reports the move (one call of move_file_to_quarantine on the file, with
\* the name it would get in quarantine, nothing moved) and counts it, leaves
\* every file where it is and the quarantine directory as it is, and changes
\* no entry of the working cache, so no ignore flag.
C15_DryRunYesKeepsFile ==
    [][(args.dry_run /\ AnswersYesToDuplicate) =>
          /\ Len(move_calls') = Len(move_calls) + 1
          /\ move_calls'[Len(move_calls')] =
                [source |-> DuplicateAtLoop,
                 dest |-> ensure_unique_quarantine_filename(effective_quarantine_path,
                                                            Basename(DuplicateAtLoop)),
                 moved |-> FALSE]
          /\ files_quarantined_count' = files_quarantined_count + 1
          /\ fs' = fs
          /\ fs'[DuplicateAtLoop].exists
          /\ quarantine_files' = quarantine_files
          /\ current_run_valid_cache_entries' = current_run_valid_cache_entries
          /\ IgnoredFlags' = IgnoredFlags]_vars

\* C15 witness: a dry run with a duplicate pair, y answered for its
\* duplicate: the move is counted and the duplicate, whose entry carries the
\* ignore flag of an earlier run, is still at its path.
C15_Witness ==
    /\ args.dry_run
    /\ run_pc = "dup_prompt"
    /\ \E i \in DOMAIN sorted_duplicate_sets :
          /\ Len(sorted_duplicate_sets[i][2]) = 1
          /\ LET d == sorted_duplicate_sets[i][2][1]
             IN /\ d \in DOMAIN answers /\ answers[d] = "y"
                /\ files_quarantined_count = 1
                /\ fs[d].exists
                /\ quarantine_files = <<>>
                /\ IgnoredFlags[d] = "true"

\* The real run on the answers of the dry run is over.
BothRunsOver == twin.mode = "replay" /\ run_pc = "finished"

\* C16 as the claim states it: the real run, on the files, cache and answers
\* of the dry run, reports the count of moved files the dry run reported, in
\* the duplicate session and in the low bitrate session.
C16_DryRunCountsAsRealRun ==
    BothRunsOver => /\ twin.files_quarantined_count = twin.reported[1]
                    /\ quarantined_lb_count = twin.reported[2]

(***************************************************************************)
(*                    Claims about the cache file                          *)
(***************************************************************************)

\* What the claim calls a malformed cache file: content that json.load
\* cannot parse, or parsed content that is not a mapping of paths to entry
\* objects.
MalformedCacheFile ==
    \/ IsOtherContent(cache_file)
    \/ \E p \in DOMAIN cache_file : IsOtherValue(cache_file[p])

\* C20: a malformed cache file is treated as an empty cache and never makes
\* the run fail: the run goes on past the load and the validation, and once
\* the preparation loop is over every file on disk is queued for analysis.
C20_MalformedCacheIsEmptyCache ==
    MalformedCacheFile =>
        /\ run_pc # "raised"
        /\ PreparationOver =>
               \A f \in Range(audio_files) : fs[f].exists => Queued(f)

\* The final save of lines 1095-1127 has just written the cache file.
CacheJustWritten ==
    run_pc = "save" /\ run_pc' = "finished" /\ cache_file' # cache_file

\* C24: every entry of the cache written at the end of a run belongs to a
\* file that exists at its path at that time and carries mtime and size;
\* no entry of the working cache for a file that is gone is written.
C24_SavedEntriesOfExistingFiles ==
    [][CacheJustWritten =>
          /\ \A p \in DOMAIN cache_file' :
                /\ fs[p].exists
                /\ {"mtime", "size"} \subseteq DOMAIN cache_file'[p]
          /\ \A p \in DOMAIN current_run_valid_cache_entries :
                ~fs[p].exists => p \notin DOMAIN cache_file']_vars

\* Witness: the cache file was written and the entry of a file moved to
\* quarantine in the run is not in it.
C24_Witness ==
    /\ run_pc = "finished"
    /\ cache_file # EmptyMap
    /\ \E p \in DOMAIN current_run_valid_cache_entries :
          /\ ~fs[p].exists
          /\ p \in Range(quarantine_files)
          /\ p \notin DOMAIN cache_file

\* save_fingerprint_cache has not replaced the cache file.
NotReplaced == save_pc \in {"open", "dump", "replace", "failed", "not_saved"}

\* C19 as the claim states it: the cache file is replaced by a completely
\* written temporary file and holds cache_data after a save that worked;
\* after a save that failed the cache file holds what it held before and
\* there is no temporary file.
C19_AtomicSave_AsStated ==
    /\ save_pc = "replace" => temp_cache_file = CompleteDump(final_cache_to_save)
    /\ save_pc = "saved" => cache_file = final_cache_to_save /\ temp_cache_file = NoTemp
    /\ NotReplaced => cache_file = fp_cache_from_disk
    /\ save_pc = "not_saved" => temp_cache_file = NoTemp

\* C19: the cache file is only ever replaced by a completely written
\* temporary file: after a save that worked it holds cache_data and the
\* temporary file is gone; until then, and after a save that failed at any
\* point, it holds what it held before; after a failed save the error is
\* logged and the temporary file is gone unless os.remove failed on it,
\* which is logged too.
C19_AtomicSave ==
    /\ save_pc = "replace" => temp_cache_file = CompleteDump(final_cache_to_save)
    /\ save_pc = "saved" =>
          /\ cache_file = final_cache_to_save
          /\ temp_cache_file = NoTemp
          /\ save_log = {}
    /\ NotReplaced => cache_file = fp_cache_from_disk
    /\ save_pc = "not_saved" =>
          /\ "could_not_save" \in save_log
          /\ temp_cache_file = NoTemp \/ "could_not_remove_temp" \in save_log

\* C19 witness: a save over an older cache file failed after the temporary
\* file was there; the cache file is the older one, the temporary file is
\* gone.
C19_Witness ==
    /\ save_pc = "not_saved"
    /\ run_pc = "finished"
    /\ temp_cache_file = NoTemp
    /\ save_log = {"could_not_save"}
    /\ cache_file = fp_cache_from_disk
    /\ cache_file # EmptyMap
    /\ cache_file # final_cache_to_save

\* The B.mp3 of the scenario run.
ScenarioB == CHOOSE p \in DOMAIN fs : p \in ScenarioBs

\* The file is below a folder of that name, wherever the folder is.
InFolderNamed(filepath, name) ==
    LET parts == Split(filepath)
    IN \E i \in 1..(Len(parts) - 1) : parts[i] = name

\* The analyses of the scenario: A and B got the same fingerprint and
\* duration, C another fingerprint.
ScenarioAnalysed ==
    /\ DOMAIN obtained = DOMAIN fs
    /\ obtained[ScenarioA] = obtained[ScenarioB]
    /\ obtained[ScenarioC][1] # obtained[ScenarioA][1]

\* One duplicate set, A canonical, B its only duplicate, C in no set.
OneSetAWithB == duplicates = (ScenarioA :> <<ScenarioB>>)

\* C25 as stated: with B in a folder named Unsorted, the run yields exactly
\* the duplicate set of A with B, and C is in no set.
C25_Scenario_AsStated ==
    (run_pc = "identified" /\ ScenarioAnalysed
        /\ InFolderNamed(ScenarioB, <<"U", "n", "s", "o", "r", "t", "e", "d">>))
    => OneSetAWithB

\* C25: with B in a folder that matches UNSORTED_PATH_MARKER_SEGMENTS (an
\* Unsorted folder directly under a Music folder), the run yields exactly the
\* duplicate set of A with B, and C is in no set.
C25_Scenario ==
    (run_pc = "identified" /\ ScenarioAnalysed
        /\ is_in_target_path_pattern(ScenarioB, UNSORTED_PATH_MARKER_SEGMENTS))
    => OneSetAWithB

\* Witness: B is larger than A and in Music/Unsorted, and A is canonical.
C25_Witness ==
    /\ run_pc = "identified"
    /\ ScenarioAnalysed
    /\ is_in_target_path_pattern(ScenarioB, UNSORTED_PATH_MARKER_SEGMENTS)
    /\ fs[ScenarioB].size > fs[ScenarioA].size
    /\ OneSetAWithB

(***************************************************************************)
(*                Claims about the fingerprinting phase                    *)
(***************************************************************************)

\* The loop of lines 883-908 has taken the result of every future.
AllResultsHandled ==
    /\ \A p \in Range(files_needing_fingerprinting) : futures[p].state = "done"
    /\ loop_i > Len(files_needing_fingerprinting)

\* The call on f failed: it returned (None, None) or raised.
AnalysisFailed(f) == futures[f].state = "done" /\ futures[f].result = <<>>

\* The call on f returned a fingerprint and the file is gone: getmtime
\* raises OSError.
StatFails(f) ==
    futures[f].state = "done" /\ futures[f].result # <<>> /\ ~fs[f].exists

\* C21: a per-file failure in the fingerprinting phase never aborts the
\* batch: the run never ends in the phase, once the files are submitted the
\* duplicate identification is reached, and by then every submitted file has
\* run to completion and has had its result handled.
C21_FailureNeverAbortsBatch ==
    /\ [](run_pc # "raised")
    /\ [](run_pc = "identify" => AllResultsHandled)
    /\ (run_pc = "collect") ~> (run_pc = "identify")

\* Witness: the identification is reached after one call raised and another
\* returned a fingerprint for a file that was gone at the stat.
C21_Witness ==
    /\ run_pc = "identify"
    /\ \E f \in DOMAIN futures : futures[f].raised
    /\ \E g \in DOMAIN futures : StatFails(g)

\* The structures main shares with nobody while the executor runs.
SharedStructures == <<current_run_valid_cache_entries, fingerprint_map>>

\* A step of a worker thread: a future gets its outcome.
WorkerStep == futures' # futures

\* A step of the loop over the futures in the main thread.
MainCollectStep == run_pc = "collect" /\ loop_i' = loop_i + 1

\* The fingerprint f was read or computed for is in the group of its key.
InItsGroup(f) ==
    LET key == FreshKey(obtained[f][1], obtained[f][2])
    IN key \in DOMAIN fingerprint_map /\ f \in Range(fingerprint_map[key])

\* C22: while the executor runs, the working cache and the fingerprint map
\* are written by the main thread's loop alone, one result at a time, and
\* never by a worker; the duplicate grouping reads the fingerprint map only
\* after every worker task is done, and no append to it was lost.
C22_SingleWriterThenRead ==
    /\ [][(run_pc = "collect" /\ SharedStructures' # SharedStructures)
              => (MainCollectStep /\ ~WorkerStep)]_vars
    /\ [](run_pc \in {"identify", "identified"} =>
              \A p \in DOMAIN futures : futures[p].state = "done")
    /\ [](run_pc = "identify" => \A f \in DOMAIN obtained : InItsGroup(f))

\* Witness: two files analysed by the workers got the same key, and both
\* are in the group when the grouping is about to read the map.
C22_Witness ==
    /\ run_pc = "identify"
    /\ \E f, g \in DOMAIN futures :
          /\ f # g
          /\ futures[f].result # <<>> /\ futures[g].result # <<>>
          /\ \E k \in DOMAIN fingerprint_map : {f, g} \subseteq Range(fingerprint_map[k])

(***************************************************************************)
(*                  Claims about the repair pipeline                       *)
(***************************************************************************)

\* The file of the pipeline run and its working cache entry.
PipelineFile == files_needing_fingerprinting[1]
PipelineEntry == current_run_valid_cache_entries[PipelineFile]

\* The call is over and main has handled its result.
ResultHandled == pc = "done" /\ run_pc \in {"collect", "identify"} /\ loop_i > 1

\* An MP3 failed the first analysis with a recoverable error, mp3val ran
\* and ended with status 0, and the analysis after it succeeded.
Mp3valRepairWorked ==
    is_mp3 /\ original_error_for_ffmpeg_check /\ mp3val_repair_led_to_fp

\* The FFmpeg stage was not entered: no backup for it was made or tried,
\* FFmpeg wrote nothing.
FfmpegNotEntered ==
    /\ ~original_file_backed_up_ffmpeg
    /\ \A ev \in {"backup_failed", "not_found", "replace_failed",
                   "remove_backup_failed", "restore_failed"} : <<"ffmpeg", ev>> \notin log
    /\ "ffmpeg" \notin rewritten_by
    /\ disk["backup_filepath_ffmpeg"] = "absent"
    /\ disk["temp_output_filepath"] = "absent"

\* The cache entry of the file holds the fingerprint and duration the call
\* returned.
EntryHoldsReturned ==
    /\ futures[PipelineFile].result # <<>>
    /\ "fingerprint_hex" \in DOMAIN PipelineEntry
    /\ PipelineEntry.fingerprint_hex = Hex(futures[PipelineFile].result.fp_bytes)
    /\ "duration" \in DOMAIN PipelineEntry
    /\ PipelineEntry.duration = futures[PipelineFile].result.duration

\* C26 as stated: after a repair by mp3val that worked, the mp3val backup
\* is removed, the cache entry holds the new fingerprint and duration, and
\* the FFmpeg stage was not entered.
C26_Mp3valSuccessPath_AsStated ==
    (ResultHandled /\ Mp3valRepairWorked) =>
        /\ disk["backup_filepath_mp3val"] = "absent"
        /\ EntryHoldsReturned
        /\ FfmpegNotEntered

\* C26: after a repair by mp3val that worked, the cache entry holds the new
\* fingerprint and duration, the FFmpeg stage was not entered, and the
\* mp3val backup is removed unless its removal raised (the warning of line
\* 282 was logged).
C26_Mp3valSuccessPath ==
    (ResultHandled /\ Mp3valRepairWorked) =>
        /\ <<"mp3val", "remove_backup_failed">> \notin log
               => disk["backup_filepath_mp3val"] = "absent"
        /\ EntryHoldsReturned
        /\ FfmpegNotEntered

\* Witness: mp3val rewrote the file, the analysis after it succeeded, the
\* backup is gone and the result is in the cache entry.
C26_Witness ==
    /\ ResultHandled
    /\ Mp3valRepairWorked
    /\ rewritten_by = {"mp3val"}
    /\ disk["backup_filepath_mp3val"] = "absent"
    /\ EntryHoldsReturned

\* The positions of the two repair stages.
InMp3valStage == pc \in {"mp3val_backup", "mp3val_run", "mp3val_refp", "mp3val_finally"}
InFfmpegStage ==
    pc \in {"ffmpeg_backup", "ffmpeg_run", "ffmpeg_replace", "ffmpeg_refp", "ffmpeg_finally"}

\* The mp3val stage was entered: its backup was made, or the copy for it
\* failed.
Mp3valHadItsTurn ==
    original_file_backed_up_mp3val \/ <<"mp3val", "backup_failed">> \in log

\* C27: the mp3val stage is entered only after a recoverable first failure
\* on an MP3 with mp3val enabled and available; the FFmpeg stage only when
\* it is enabled, FFmpeg is available and the first failure was recoverable,
\* and only after the mp3val stage was skipped (not eligible) or has failed;
\* the call never goes back from the FFmpeg stage to the mp3val stage.
C27_RepairLadder ==
    /\ [](InMp3valStage =>
              /\ original_error_for_ffmpeg_check /\ is_mp3
              /\ attempt_repair_mp3val_if_needed /\ MP3VAL_PATH
              /\ ~InFfmpegStage /\ ~original_file_backed_up_ffmpeg)
    /\ [](InFfmpegStage =>
              /\ attempt_repair_ffmpeg_if_needed /\ FFMPEG_PATH
              /\ original_error_for_ffmpeg_check
              /\ ~mp3val_repair_led_to_fp
              /\ should_try_mp3val <=> Mp3valHadItsTurn)
    /\ [][InFfmpegStage => ~InMp3valStage']_vars

\* Witness: FFmpeg runs after an eligible mp3val stage has failed.
C27_Witness ==
    /\ pc = "ffmpeg_run"
    /\ should_try_mp3val
    /\ Mp3valHadItsTurn
    /\ "mp3val" \in rewritten_by

\* The first analysis failed with an error outside the recoverable class:
\* a FingerprintGenerationError with another text (the warning of line 217),
\* or another exception (the error of line 389).
PrimaryFailedUnrecoverable ==
    \/ <<"primary", "failed">> \in log /\ ~original_error_for_ffmpeg_check
    \/ <<"primary", "unexpected">> \in log

\* C28: after a first failure outside the recoverable class no repair stage
\* is entered, no backup or temporary file is created, the file is not
\* modified, the call returns (None, None), the file is put in no
\* fingerprint group and its cache entry gains no fingerprint.
C28_UnrecoverableGoesToFailed ==
    PrimaryFailedUnrecoverable =>
        /\ ~InMp3valStage /\ ~InFfmpegStage
        /\ ~original_file_backed_up_mp3val /\ ~original_file_backed_up_ffmpeg
        /\ disk = [p \in RepairPaths |->
                      IF p = "filepath" THEN OriginalBytes ELSE "absent"]
        /\ rewritten_by = {}
        /\ result = IF pc = "done" THEN "none" ELSE "pending"
        /\ futures[PipelineFile].result = <<>>
        /\ fs = fs_at_start
        /\ fingerprint_map = EmptyMap
        /\ "fingerprint_hex" \notin DOMAIN PipelineEntry
        /\ "duration" \notin DOMAIN PipelineEntry

\* Witness: both repairs were enabled and available for an MP3, the first
\* failure was not recoverable, and main has handled the (None, None).
C28_Witness ==
    /\ ResultHandled
    /\ PrimaryFailedUnrecoverable
    /\ is_mp3
    /\ attempt_repair_mp3val_if_needed /\ MP3VAL_PATH
    /\ attempt_repair_ffmpeg_if_needed /\ FFMPEG_PATH
    /\ result = "none"

\* A stage has ended: it was entered and the call has left it.
Mp3valStageEnded == Mp3valHadItsTurn /\ ~InMp3valStage
FfmpegHadItsTurn ==
    original_file_backed_up_ffmpeg \/ <<"ffmpeg", "backup_failed">> \in log
FfmpegStageEnded == FfmpegHadItsTurn /\ ~InFfmpegStage

\* A copy to the stage's backup, the removal of it or the restore from it
\* raised.
StageFault(stage) == \E ev \in {"backup_failed", "remove_backup_failed", "restore_failed"} :
                         <<stage, ev>> \in log

\* What the claim requires of the two stages, given the stages that count.
Reconciled(mp3val_counts, ffmpeg_counts) ==
    /\ ~(disk["backup_filepath_mp3val"] # "absent"
             /\ disk["backup_filepath_ffmpeg"] # "absent"
             /\ mp3val_counts /\ ffmpeg_counts)
    /\ (Mp3valStageEnded /\ mp3val_counts) =>
           /\ disk["backup_filepath_mp3val"] = "absent"
           /\ (pc = "stage2_gate") => disk["filepath"] = OriginalBytes
    /\ (FfmpegStageEnded /\ ffmpeg_counts) =>
           /\ disk["backup_filepath_ffmpeg"] = "absent"
           /\ (~ffmpeg_repair_led_to_fp /\ mp3val_counts)
                  => disk["filepath"] = OriginalBytes

RepairFailed == pc = "done" /\ result = "none"
RepairSucceeded == pc = "done" /\ result = "fp"
BackupPaths == {"backup_filepath_mp3val", "backup_filepath_ffmpeg"}
RepairStages == {"mp3val", "ffmpeg"}

\* C1 as stated: whenever get_audio_fingerprint ends in Failed (returns
\* (None, None)), filepath holds the bytes it held before the call.
C1_FailedKeepsBytes_AsStated ==
    RepairFailed => disk["filepath"] = OriginalBytes

\* C1 amended: whenever get_audio_fingerprint ends in Failed and no restore
\* from a backup raised (no CRITICAL "Failed to restore" was logged),
\* filepath holds the bytes it held before the call.
C1_FailedKeepsBytes ==
    (RepairFailed /\ \A st \in RepairStages : <<st, "restore_failed">> \notin log)
        => disk["filepath"] = OriginalBytes

\* C1 witness: a call that failed after both tools rewrote the file and both
\* restores went through.
C1_Witness ==
    /\ RepairFailed
    /\ rewritten_by = {"mp3val", "ffmpeg"}
    /\ \A st \in RepairStages : <<st, "restore_failed">> \notin log

\* The events after which a backup file may be left behind.
BackupFaults == {"backup_failed", "remove_backup_failed", "restore_failed"}

FfmpegBackupHeld ==
    /\ pc \in {"ffmpeg_run", "ffmpeg_replace", "ffmpeg_refp", "ffmpeg_finally"}
    /\ original_file_backed_up_ffmpeg
Mp3valRestoreFailed == <<"mp3val", "restore_failed">> \in log
FfmpegRestoreFailed == <<"ffmpeg", "restore_failed">> \in log
FfmpegStageFailed ==
    pc = "done" /\ original_file_backed_up_ffmpeg /\ ~ffmpeg_repair_led_to_fp

\* The original is replaced only after FFmpeg exited with status 0 having
\* written a non-empty output.
ReplacedOnlyIfUsable ==
    /\ (pc = "ffmpeg_replace") =>
           /\ process_ffmpeg.ran /\ process_ffmpeg.returncode = 0
           /\ disk["temp_output_filepath"] \notin {"absent", "empty"}
    /\ ("ffmpeg" \in rewritten_by) =>
           process_ffmpeg.ran /\ process_ffmpeg.returncode = 0

\* C30 as stated: the backup of the FFmpeg stage holds the original bytes,
\* the original is replaced only by a usable output, and when the stage has
\* failed the file holds the original bytes again and neither the backup
\* nor the temporary output is left.
C30_FfmpegStage_AsStated ==
    /\ FfmpegBackupHeld => disk["backup_filepath_ffmpeg"] = OriginalBytes
    /\ ReplacedOnlyIfUsable
    /\ FfmpegStageFailed =>
           /\ disk["filepath"] = OriginalBytes
           /\ disk["backup_filepath_ffmpeg"] = "absent"
           /\ disk["temp_output_filepath"] = "absent"

\* C30: the backup of the FFmpeg stage holds the original bytes unless the
\* restore of the mp3val stage raised; the original is replaced only by a
\* usable output; when the stage has failed and no restore raised, the file
\* holds the original bytes again and the backup is gone; and a temporary
\* output is left only when FFmpeg ran and its output was not moved over the
\* file (its removal raised).
C30_FfmpegStage ==
    /\ (FfmpegBackupHeld /\ ~Mp3valRestoreFailed)
           => disk["backup_filepath_ffmpeg"] = OriginalBytes
    /\ ReplacedOnlyIfUsable
    /\ (FfmpegStageFailed /\ ~Mp3valRestoreFailed /\ ~FfmpegRestoreFailed) =>
           /\ disk["filepath"] = OriginalBytes
           /\ disk["backup_filepath_ffmpeg"] = "absent"
    /\ (pc = "done" /\ disk["temp_output_filepath"] # "absent") =>
           process_ffmpeg.ran /\ "ffmpeg" \notin rewritten_by

\* Witness: the mp3val stage rewrote the file, failed and restored it; FFmpeg
\* then exited with status 0 without replacing the file, and the call has
\* ended with the original bytes, no backup and no temporary output.
C30_Witness ==
    /\ FfmpegStageFailed
    /\ "mp3val" \in rewritten_by /\ "ffmpeg" \notin rewritten_by
    /\ ~Mp3valRestoreFailed /\ ~FfmpegRestoreFailed
    /\ process_ffmpeg.ran /\ process_ffmpeg.returncode = 0
    /\ <<"ffmpeg", "replace_failed">> \notin log
    /\ disk["filepath"] = OriginalBytes
    /\ disk["backup_filepath_ffmpeg"] = "absent"
    /\ disk["temp_output_filepath"] = "absent"

\* The step reads an answer that is none of y, n, a, q for the file the
\* loop of the duplicate session, or of the low bitrate flow, stands at.
OtherAnswerToDuplicate ==
    /\ run_pc = "dup_prompt"
    /\ inputs_read' = inputs_read + 1
    /\ DuplicateAtLoop \in DOMAIN answers'
    /\ answers'[DuplicateAtLoop] \notin {"y", "n", "a", "q"}
OtherAnswerToLowBitrate ==
    /\ run_pc = "lb_prompt"
    /\ inputs_read' = inputs_read + 1
    /\ LowBitrateAtLoop \in DOMAIN answers'
    /\ answers'[LowBitrateAtLoop] \notin {"y", "n", "a", "q"}

\* C39: a step that reads an answer other than y, n, a and q moves no file,
\* calls move_file_to_quarantine on none, counts nothing, leaves yes-to-all
\* mode and quit mode as they were, changes no entry of the working cache
\* (so sets no ignore flag), and takes the loop to the next file.
C39_OtherAnswerActsOnNothing ==
    [][/\ OtherAnswerToDuplicate =>
             /\ fs' = fs /\ quarantine_files' = quarantine_files
             /\ move_calls' = move_calls
             /\ files_quarantined_count' = files_quarantined_count
             /\ remove_all_mode' = remove_all_mode /\ quit_mode' = quit_mode
             /\ current_run_valid_cache_entries' = current_run_valid_cache_entries
             /\ run_pc' = run_pc /\ loop_i' = loop_i /\ loop_j' = loop_j + 1
       /\ OtherAnswerToLowBitrate =>
             /\ fs' = fs /\ quarantine_files' = quarantine_files
             /\ move_calls' = move_calls
             /\ quarantined_lb_count' = quarantined_lb_count
             /\ all_mode_lb' = all_mode_lb /\ quit_mode_lb' = quit_mode_lb
             /\ current_run_valid_cache_entries' = current_run_valid_cache_entries
             /\ IgnoredFlags'[LowBitrateAtLoop] # "true"
             /\ run_pc' = run_pc /\ loop_i' = loop_i + 1]_vars

\* Witness: in the low bitrate flow the first file was answered with
\* something else and the second with y; the first is at its path, its
\* ignore flag not set, and neither mode is on.
C39_Witness ==
    /\ run_pc = "lb_prompt"
    /\ Len(low_bitrate_files_to_prompt) = 2
    /\ DOMAIN answers = Range(low_bitrate_files_to_prompt)
    /\ answers[low_bitrate_files_to_prompt[1]] = "x"
    /\ answers[low_bitrate_files_to_prompt[2]] = "y"
    /\ fs[low_bitrate_files_to_prompt[1]].exists
    /\ IgnoredFlags[low_bitrate_files_to_prompt[1]] = "false"
    /\ ~all_mode_lb /\ ~quit_mode_lb

(***************************************************************************)
(*                    Claims about the worker tasks                        *)
(***************************************************************************)

\* No path is twice in the list.
NoRepetition(seq) == \A i, j \in DOMAIN seq : i # j => seq[i] # seq[j]

\* The step submits the tasks: one for every entry of
\* files_needing_fingerprinting, all of them pending.
SubmitStep ==
    /\ run_pc = "prepare"
    /\ futures = EmptyMap
    /\ DOMAIN futures' = Range(files_needing_fingerprinting)
    /\ \A p \in DOMAIN futures' : futures'[p].state = "pending"

\* The step ends the task of one path, and leaves the others as they are.
TaskEndStep ==
    \E p \in DOMAIN futures :
        /\ futures[p].state = "pending"
        /\ DOMAIN futures' = DOMAIN futures
        /\ futures'[p].state = "done"
        /\ \A q \in DOMAIN futures \ {p} : futures'[q] = futures[q]

\* C35: the list of the paths to analyse names no path twice and holds only
\* files of the walk; the tasks are submitted in one step, one task for each
\* path of the list, and from then on the only change to the tasks is that
\* one pending task ends: no path gets a second task, and no task that has
\* ended runs again.
C35_OneTaskPerPath ==
    /\ [](/\ NoRepetition(files_needing_fingerprinting)
          /\ Range(files_needing_fingerprinting) \subseteq Range(audio_files)
          /\ run_pc \in {"collect", "identify", "identified"} =>
                /\ DOMAIN futures = Range(files_needing_fingerprinting)
                /\ Cardinality(DOMAIN futures) = Len(files_needing_fingerprinting))
    /\ [][futures' # futures => SubmitStep \/ TaskEndStep]_vars

\* Witness: two files were queued and submitted, the task of one has ended
\* and that of the other is running.
C35_Witness ==
    /\ run_pc = "collect"
    /\ Len(files_needing_fingerprinting) = 2
    /\ \E p, q \in DOMAIN futures :
          futures[p].state = "done" /\ futures[q].state = "pending"

(***************************************************************************)
(*                 Claims about files that have vanished                   *)
(***************************************************************************)

\* The validation loop is over, and the file was gone when the loop looked
\* for it: line 821 found no file, or the stat of lines 823-824 raised.
StatFailedInValidation(f) ==
    /\ run_pc \notin {"load_cache", "validate"}
    /\ f \in DOMAIN fs_at_start
    /\ ~fs_at_start[f].exists

NotFingerprinted(f) ==
    /\ f \notin Range(files_needing_fingerprinting)
    /\ f \notin DOMAIN futures
    /\ f \notin DOMAIN obtained

InNoGroup(f) ==
    /\ \A k \in DOMAIN fingerprint_map : f \notin Range(fingerprint_map[k])
    /\ f \notin DOMAIN duplicates
    /\ \A c \in DOMAIN duplicates : f \notin Range(duplicates[c])

NotOfferedAsDuplicate(f) ==
    \A i \in DOMAIN sorted_duplicate_sets :
        f # sorted_duplicate_sets[i][1] /\ f \notin Range(sorted_duplicate_sets[i][2])

NotOfferedAsLowBitrate(f) ==
    f \notin Range(low_bitrate_files_to_prompt)

NeitherAnsweredNorMoved(f) ==
    /\ f \notin DOMAIN answers
    /\ \A i \in DOMAIN move_calls : move_calls[i].source # f

\* C32 as stated: a file whose stat failed in the validation loop has no
\* working cache entry for the rest of the run, is not fingerprinted, is in
\* no fingerprint group and in no duplicate set, is on the prompt list of
\* neither flow, is neither answered for nor moved, and the run does not
\* end with an exception.
C32_StatFailureExcludesFile ==
    \A f \in DOMAIN fs_at_start :
        StatFailedInValidation(f) =>
            /\ f \notin DOMAIN current_run_valid_cache_entries
            /\ NotFingerprinted(f)
            /\ InNoGroup(f)
            /\ NotOfferedAsDuplicate(f)
            /\ NotOfferedAsLowBitrate(f)
            /\ NeitherAnsweredNorMoved(f)
            /\ run_pc # "raised"

\* The members of the i-th duplicate set of the session, and those that
\* were on disk when the session began.
SetOf(i) == {sorted_duplicate_sets[i][1]} \cup Range(sorted_duplicate_sets[i][2])
SurvivorsOf(i) == {m \in SetOf(i) : at_session_start.fs[m].exists}

\* C33 as stated: in the duplicate session no member of a set of which one
\* member alone is on disk is answered for or handed to
\* move_file_to_quarantine, and a step that visits a duplicate that is gone
\* reads no input, moves nothing and counts nothing.
C33_LoneSurvivorSetDropped ==
    /\ [](run_pc = "dup_prompt" =>
             \A i \in DOMAIN sorted_duplicate_sets :
                 Cardinality(SurvivorsOf(i)) = 1 =>
                     \A m \in SetOf(i) : NeitherAnsweredNorMoved(m))
    /\ [][(/\ run_pc = "dup_prompt" /\ ~quit_mode
           /\ loop_i <= Len(sorted_duplicate_sets)
           /\ loop_j <= Len(sorted_duplicate_sets[loop_i][2])
           /\ ~fs[DuplicateAtLoop].exists)
              => /\ inputs_read' = inputs_read
                 /\ move_calls' = move_calls
                 /\ files_quarantined_count' = files_quarantined_count
                 /\ fs' = fs]_vars

\* The step calls move_file_to_quarantine on the duplicate that vanished
\* while its prompt was open.
CalledOnMissingSource ==
    /\ run_pc = "dup_prompted"
    /\ Len(move_calls') = Len(move_calls) + 1

\* C34: a call of move_file_to_quarantine on a source that is not on disk
\* returns False without calling os.makedirs, moves nothing and changes
\* neither the audio files nor the quarantine directory; in the duplicate
\* session the step that makes such a call leaves the count of moved files
\* as it was and goes on to the next duplicate, the session not halted.
C34_MissingSourceSkipped ==
    /\ [](\A f \in DOMAIN fs :
             ~fs[f].exists =>
                 \A dry_run \in BOOLEAN, raises \in BOOLEAN :
                     LET out == move_file_to_quarantine(f, effective_quarantine_path,
                                                        dry_run, raises)
                     IN /\ ~out.ret
                        /\ ~out.makedirs_called
                        /\ out.fs = fs
                        /\ out.quarantine_files = quarantine_files
                        /\ out.call = [source |-> f, dest |-> <<>>, moved |-> FALSE])
    /\ [][CalledOnMissingSource =>
             /\ fs' = fs
             /\ quarantine_files' = quarantine_files
             /\ files_quarantined_count' = files_quarantined_count
             /\ move_calls' = Append(move_calls,
                                     [source |-> DuplicateAtLoop, dest |-> <<>>,
                                      moved |-> FALSE])
             /\ loop_j' = loop_j + 1
             /\ run_pc' = "dup_prompt"
             /\ ~quit_mode']_vars

\* Witness: the first duplicate of a set vanished while its prompt was open
\* and the call on it moved nothing; the session went on, and the next
\* duplicate of the set has been moved and counted.
C34_Witness ==
    /\ run_pc = "dup_prompt"
    /\ loop_i <= Len(sorted_duplicate_sets)
    /\ Len(sorted_duplicate_sets[loop_i][2]) = 2
    /\ Len(move_calls) = 2
    /\ move_calls[1] = [source |-> sorted_duplicate_sets[loop_i][2][1], dest |-> <<>>,
                        moved |-> FALSE]
    /\ at_session_start.fs[move_calls[1].source].exists
    /\ ~fs[move_calls[1].source].exists
    /\ move_calls[1].source \notin {quarantine_files[p] : p \in DOMAIN quarantine_files}
    /\ move_calls[2].moved
    /\ move_calls[2].source = sorted_duplicate_sets[loop_i][2][2]
    /\ files_quarantined_count = 1

\* Every path is in at most one fingerprint group, and once in it.
InOneGroupAtMost ==
    \A k1, k2 \in DOMAIN fingerprint_map :
        \A i \in DOMAIN fingerprint_map[k1], j \in DOMAIN fingerprint_map[k2] :
            fingerprint_map[k1][i] = fingerprint_map[k2][j] => (k1 = k2 /\ i = j)

\* The session has moved the file to quarantine.
MovedBySession(m) ==
    \E i \in DOMAIN move_calls : move_calls[i].source = m /\ move_calls[i].moved

\* C38 as stated: every path is in at most one fingerprint group; in the
\* duplicate session the canonical file of a set is not answered for, not
\* handed to move_file_to_quarantine and stays as it was; and of the members
\* of a set that were on disk when the session began, one at least has not
\* been moved by the session.
C38_OneMemberStays ==
    /\ InOneGroupAtMost
    /\ run_pc \in {"dup_prompt", "dup_prompted"} =>
          \A i \in DOMAIN sorted_duplicate_sets :
              /\ NeitherAnsweredNorMoved(sorted_duplicate_sets[i][1])
              /\ fs[sorted_duplicate_sets[i][1]] =
                    at_session_start.fs[sorted_duplicate_sets[i][1]]
              /\ SurvivorsOf(i) # {} =>
                    \E m \in SurvivorsOf(i) : ~MovedBySession(m)

(***************************************************************************)
(*                 Claims about the order of the repair steps              *)
(***************************************************************************)

\* The step in which mp3val rewrites the file in place, and the step in
\* which the FFmpeg output is moved over the file.
Mp3valMutates ==
    pc = "mp3val_run" /\ disk'["filepath"] # disk["filepath"]
FfmpegMutates ==
    pc = "ffmpeg_replace" /\ disk'["filepath"] # disk["filepath"]

\* The stage's copy2 has completed and its backup holds what the file holds.
BackedUp(flag, backup) == flag /\ disk[backup] = disk["filepath"]

\* C36: mp3val rewrites the file, and the FFmpeg output replaces it, only
\* when the copy of the file to the stage's backup path has completed, the
\* backup holding what the file held, and with the original bytes in one of
\* the backups; nothing else but the restore of a backed-up file changes the
\* file; and a stage whose copy to the backup failed ends with the file as
\* it was.
C36_NoMutationWithoutBackup ==
    [][/\ Mp3valMutates =>
             /\ BackedUp(original_file_backed_up_mp3val, "backup_filepath_mp3val")
             /\ disk["backup_filepath_mp3val"] = OriginalBytes
       /\ FfmpegMutates =>
             /\ BackedUp(original_file_backed_up_ffmpeg, "backup_filepath_ffmpeg")
             /\ OriginalBytes \in {disk["backup_filepath_mp3val"],
                                   disk["backup_filepath_ffmpeg"]}
       /\ disk'["filepath"] # disk["filepath"] =>
             \/ Mp3valMutates
             \/ FfmpegMutates
             \/ pc = "mp3val_finally" /\ original_file_backed_up_mp3val
             \/ pc = "ffmpeg_finally" /\ original_file_backed_up_ffmpeg
       /\ (InMp3valStage /\ ~original_file_backed_up_mp3val')
             => disk'["filepath"] = disk["filepath"]
       /\ (InFfmpegStage /\ ~original_file_backed_up_ffmpeg')
             => disk'["filepath"] = disk["filepath"]]_vars

\* Witness: the copy to the mp3val backup failed and mp3val did not run;
\* FFmpeg then made its backup, its output replaced the file, and the call
\* has ended with a fingerprint.
C36_Witness ==
    /\ pc = "done"
    /\ <<"mp3val", "backup_failed">> \in log
    /\ ~original_file_backed_up_mp3val
    /\ rewritten_by = {"ffmpeg"}
    /\ original_file_backed_up_ffmpeg
    /\ ffmpeg_repair_led_to_fp

\* The positions of get_audio_fingerprint in the order of the code.
Positions ==
    <<"primary", "stage1_gate", "mp3val_backup", "mp3val_run", "mp3val_refp",
      "mp3val_finally", "stage2_gate", "ffmpeg_backup", "ffmpeg_run", "ffmpeg_replace",
      "ffmpeg_refp", "ffmpeg_finally", "done">>
Rank(position) == CHOOSE i \in DOMAIN Positions : Positions[i] = position

\* acoustid.fingerprint_file is called at these positions, once at each.
AnalysisPositions == {"primary", "mp3val_refp", "ffmpeg_refp"}

\* C37: the call always ends, with a fingerprint or with (None, None); every
\* step takes it to a later position of the code, so that no position is
\* reached twice: each stage is entered at most once, the mp3val stage never
\* after the FFmpeg stage, and the analysis, called at three positions, runs
\* at most three times.
C37_PipelineTerminates ==
    /\ <>(pc = "done")
    /\ [](pc = "done" => result \in {"fp", "none"})
    /\ [](pc \in Range(Positions))
    /\ [][Rank(pc') > Rank(pc)]_vars
    /\ [][(pc' \in AnalysisPositions) =>
             pc \in {"mp3val_run", "ffmpeg_replace"}]_vars

\* Witness: the analysis ran three times, at first, after mp3val and after
\* FFmpeg, and the call has ended without a fingerprint.
C37_Witness ==
    /\ pc = "done"
    /\ result = "none"
    /\ <<"primary", "failed">> \in log
    /\ rewritten_by = {"mp3val", "ffmpeg"}
    /\ ~mp3val_repair_led_to_fp /\ ~ffmpeg_repair_led_to_fp
    /\ process_ffmpeg.ran /\ process_ffmpeg.returncode = 0
    /\ <<"ffmpeg", "replace_failed">> \notin log


(***************************************************************************)
(*                  Claims about the final cache save                      *)
(***************************************************************************)

\* The run in which no cache-relevant stage ran: duplicate detection was
\* skipped or fpcalc is missing, the low bitrate scan was skipped or
\* declined, and no re-fingerprinting was forced.
NoCacheRelevantStageRan ==
    /\ args.skip_duplicates \/ ~can_fingerprint_system_ok
    /\ args.skip_low_bitrate \/ response_check_low_br_for_save_logic # "y"
    /\ ~args.force_re_fingerprint

\* C40: a run in which no cache-relevant stage ran ends with the cache file
\* as it found it, and so does a run whose pruned working cache is empty; no
\* step before the final save changes the cache file, and when the final
\* save writes the file, what it writes is the pruned working cache.
C40_CacheFileFrame ==
    /\ []((run_pc = "finished" /\ (NoCacheRelevantStageRan \/ final_cache_to_save = EmptyMap))
            => cache_file = CacheFileAtStart)
    /\ [][cache_file' # cache_file =>
            /\ run_pc = "save"
            /\ ~NoCacheRelevantStageRan
            /\ final_cache_to_save # EmptyMap
            /\ cache_file' = final_cache_to_save]_vars
    /\ []((run_pc = "finished" /\ cache_file # CacheFileAtStart)
            => cache_file = final_cache_to_save)

\* A run has ended that skipped duplicate detection and whose user declined
\* the low bitrate scan: there were entries to save, and the cache file is
\* as the run found it.
C40_Witness ==
    /\ run_pc = "finished"
    /\ args.skip_duplicates
    /\ can_fingerprint_system_ok
    /\ ~args.skip_low_bitrate
    /\ response_check_low_br_for_save_logic = "n"
    /\ inputs_read = 0
    /\ final_cache_to_save # EmptyMap
    /\ final_cache_to_save # CacheFileAtStart
    /\ cache_file = CacheFileAtStart

====
